---- MODULE Spec2Model ----
(***************************************************************************)
(* Model of the hash-table engine of analise_hash:                         *)
(*   TabelaAberta    - open addressing, linear probing, lazy deletion      *)
(*   TabelaEncadeada - separate chaining                                   *)
(* A caller constructs one table and then issues inserir / buscar /        *)
(* remover / limpar calls, choosing a key and a hash kind for each call.   *)
(***************************************************************************)
EXTENDS Integers, Sequences, FiniteSets, TLC

(***************************************************************************)
(* Bounds of the model.                                                    *)
(***************************************************************************)
\* capacities handed to the constructors are 0..MaxTam
MaxTam == 5
\* keys handed to the operations are -1..MaxChave; -1 and 1 have the same
\* absolute value, hence the same home index under both hash functions
MaxChave == 1

Chaves == (0 - 1)..MaxChave

\* the caller of the second specification constructs open tables of the
\* capacities 0..TamBorda and uses the keys 0, 1 and TamBorda - 1; under
\* the division hash the last key has the last index of a table of
\* capacity TamBorda as its home index
TamBorda == 4

ChavesBorda == {0, 1, TamBorda - 1}

\* the caller of the third specification constructs an open table of
\* capacity TamCluster and uses five keys that are multiples of the
\* capacity, two of them negative: under the division hash all of them have
\* the home index 0
TamCluster == 10

ChavesCluster == {k * TamCluster : k \in (0 - 2)..2}

\* the caller of the fourth specification constructs tables of the
\* capacities 0..TamHash and asks for the division index of the keys
\* -MaxChaveHash..MaxChaveHash and of the two smallest and the two largest
\* values of int
TamHash == 7
MaxChaveHash == 3

\* the caller of the fifth specification constructs a CarregadorDados with
\* the range 1..maximo, maximo in 1..MaxMaximo or the default, and asks for
\* 0..MaxQuantidade numbers or for the quantities around LIMITE_UNICOS
MaxMaximo == 3
MaxQuantidade == 3

\* the datasets of the benchmark have at most MaxRepetidosDados values that
\* repeat an earlier value of the dataset
MaxRepetidosDados == 1

TipoHash == {"DIVISAO", "MULTIPLICACAO"}

VARIABLES
    aberta,      \* the TabelaAberta object (tamanho = 0: not constructed)
    encadeada,   \* the TabelaEncadeada object (tamanho = 0: not constructed)
    ult,         \* the last call and what it returned to the caller
    inseridos,   \* keys passed to inserir since construction / last limpar
    tipos,       \* hash kinds used by inserir / remover calls so far
    numeros,     \* the CarregadorDados object and its call in progress
    variante,    \* the TabelaHashAberta object (tamanho = 0: not constructed)
    ultVariante, \* what the last call on the TabelaHashAberta returned
    bench        \* the call of testarTabelaAberta in progress

vars ==
    <<aberta, encadeada, ult, inseridos, tipos, numeros, variante,
      ultVariante, bench>>

(***************************************************************************)
(* Hash functions.                                                         *)
(***************************************************************************)
Abs(x) == IF x < 0 THEN 0 - x ELSE x

\* size_t(std::abs(chave)) % tamanho, for every chave above INT_MIN
calcularHashDivisao(tamanho, chave) == Abs(chave) % tamanho

\* int is 32 bits wide: its largest and smallest value
INT_MAX == 2147483647
INT_MIN == (0 - INT_MAX) - 1

ChavesHash ==
    ((0 - MaxChaveHash)..MaxChaveHash)
        \cup {INT_MIN, INT_MIN + 1, INT_MAX - 1, INT_MAX}

\* 2^n mod m
RECURSIVE PotenciaDe2Mod(_, _)
PotenciaDe2Mod(n, m) ==
    IF n = 0 THEN 1 % m ELSE (2 * PotenciaDe2Mod(n - 1, m)) % m

\* The values calcularHashDivisao can return.  std::abs(INT_MIN) overflows
\* int, which is undefined: a build either leaves INT_MIN, which the cast to
\* the 64-bit size_t turns into 2^64 - 2^31, or, taking the result of abs to
\* be non-negative, widens it without sign to 2^31.
resultadosHashDivisao(tamanho, chave) ==
    IF chave = INT_MIN
    THEN {(PotenciaDe2Mod(64, tamanho) + tamanho
              - PotenciaDe2Mod(31, tamanho)) % tamanho,
          PotenciaDe2Mod(31, tamanho)}
    ELSE {calcularHashDivisao(tamanho, chave)}

\* The multiplication constants, written as the two 5-digit limbs of their
\* 10-digit decimal fraction: 0.6180339887 and 0.6327483800.
CONSTANTE_MULTIPLICACAO_ABERTA == <<61803, 39887>>
CONSTANTE_MULTIPLICACAO_ENCADEADA == <<63274, 83800>>

\* floor(tamanho * frac(|chave| * A)), computed exactly on the decimal
\* expansion of A.  For the keys and capacities of the model the exact value
\* of tamanho * frac(|chave| * A) is never within 1e-10 of an integer other
\* than at chave = 0, so the double computation of the code gives the same
\* index.
HashMultiplicacao(tamanho, chave, A) ==
    LET Base == 100000
        a  == Abs(chave)
        lo == a * A[2]
        hi == a * A[1] + (lo \div Base)
        H  == hi % Base
        L  == lo % Base
    IN  (tamanho * H + ((tamanho * L) \div Base)) \div Base

calcularHashMultiplicacaoAberta(tamanho, chave) ==
    HashMultiplicacao(tamanho, chave, CONSTANTE_MULTIPLICACAO_ABERTA)

calcularHashMultiplicacaoEncadeada(tamanho, chave) ==
    HashMultiplicacao(tamanho, chave, CONSTANTE_MULTIPLICACAO_ENCADEADA)

(***************************************************************************)
(* TabelaAberta                                                            *)
(***************************************************************************)
\* Celula()
CelulaVazia == [valor |-> 0, estado |-> "VAZIO"]

\* A plausible slip: eager deletion, the cell is reset instead of marked.
marcarRemovidoComoVazio(celula) == [valor |-> 0, estado |-> "VAZIO"]

\* A plausible slip: the state is marked but the value is left in place.
marcarRemovidoSemLimpar(celula) ==
    [valor |-> celula.valor, estado |-> "REMOVIDO"]

\* Celula::marcarRemovido
marcarRemovido(celula) == [valor |-> 0, estado |-> "REMOVIDO"]

\* Celula::disponivelParaInsercao
disponivelParaInsercao(celula) ==
    celula.estado = "VAZIO" \/ celula.estado = "REMOVIDO"

\* the object before its constructor has run
AbertaNula ==
    [tabela |-> [i \in {} |-> CelulaVazia], tamanho |-> 0,
     numElementos |-> 0, numRemovidos |-> 0]

\* TabelaAberta::TabelaAberta(tam), tam > 0
NovaAberta(tam) ==
    [tabela |-> [i \in 0..(tam - 1) |-> CelulaVazia], tamanho |-> tam,
     numElementos |-> 0, numRemovidos |-> 0]

indiceInicialAberta(t, valor, tipo) ==
    IF tipo = "DIVISAO"
    THEN calcularHashDivisao(t.tamanho, valor)
    ELSE calcularHashMultiplicacaoAberta(t.tamanho, valor)

\* the while loop of TabelaAberta::sondagemLinear
RECURSIVE sondagemLaco(_, _, _, _, _)
sondagemLaco(t, indice, valor, paraInsercao, tentativas) ==
    IF tentativas >= t.tamanho THEN t.tamanho
    ELSE LET celula == t.tabela[indice] IN
         IF paraInsercao
         THEN IF disponivelParaInsercao(celula) THEN indice
              ELSE IF celula.estado = "OCUPADO" /\ celula.valor = valor
                   THEN indice
                   ELSE sondagemLaco(t, (indice + 1) % t.tamanho, valor,
                                     paraInsercao, tentativas + 1)
         ELSE IF celula.estado = "VAZIO" THEN t.tamanho
              ELSE IF celula.estado = "OCUPADO" /\ celula.valor = valor
                   THEN indice
                   ELSE sondagemLaco(t, (indice + 1) % t.tamanho, valor,
                                     paraInsercao, tentativas + 1)

\* A plausible slip in the search branch of the loop: a REMOVIDO cell ends
\* the walk like a VAZIO one.
RECURSIVE sondagemLacoParaEmRemovido(_, _, _, _, _)
sondagemLacoParaEmRemovido(t, indice, valor, paraInsercao, tentativas) ==
    IF tentativas >= t.tamanho THEN t.tamanho
    ELSE LET celula == t.tabela[indice] IN
         IF paraInsercao
         THEN IF disponivelParaInsercao(celula) THEN indice
              ELSE IF celula.estado = "OCUPADO" /\ celula.valor = valor
                   THEN indice
                   ELSE sondagemLacoParaEmRemovido(
                            t, (indice + 1) % t.tamanho, valor,
                            paraInsercao, tentativas + 1)
         ELSE IF celula.estado # "OCUPADO" THEN t.tamanho
              ELSE IF celula.valor = valor
                   THEN indice
                   ELSE sondagemLacoParaEmRemovido(
                            t, (indice + 1) % t.tamanho, valor,
                            paraInsercao, tentativas + 1)

sondagemLinearParaEmRemovido(t, indiceInicial, valor, paraInsercao) ==
    sondagemLacoParaEmRemovido(t, indiceInicial, valor, paraInsercao, 0)

\* A plausible slip in the insertion branch of the loop: only a VAZIO cell
\* is accepted, a REMOVIDO cell is walked over.
RECURSIVE sondagemLacoSoVazio(_, _, _, _, _)
sondagemLacoSoVazio(t, indice, valor, paraInsercao, tentativas) ==
    IF tentativas >= t.tamanho THEN t.tamanho
    ELSE LET celula == t.tabela[indice] IN
         IF paraInsercao
         THEN IF celula.estado = "VAZIO" THEN indice
              ELSE IF celula.estado = "OCUPADO" /\ celula.valor = valor
                   THEN indice
                   ELSE sondagemLacoSoVazio(
                            t, (indice + 1) % t.tamanho, valor,
                            paraInsercao, tentativas + 1)
         ELSE IF celula.estado = "VAZIO" THEN t.tamanho
              ELSE IF celula.estado = "OCUPADO" /\ celula.valor = valor
                   THEN indice
                   ELSE sondagemLacoSoVazio(
                            t, (indice + 1) % t.tamanho, valor,
                            paraInsercao, tentativas + 1)

sondagemLinearSoVazio(t, indiceInicial, valor, paraInsercao) ==
    sondagemLacoSoVazio(t, indiceInicial, valor, paraInsercao, 0)

\* A plausible slip in the search branch of the loop: the value of the cell
\* is compared without looking at its state.
RECURSIVE sondagemLacoSemEstado(_, _, _, _, _)
sondagemLacoSemEstado(t, indice, valor, paraInsercao, tentativas) ==
    IF tentativas >= t.tamanho THEN t.tamanho
    ELSE LET celula == t.tabela[indice] IN
         IF paraInsercao
         THEN IF disponivelParaInsercao(celula) THEN indice
              ELSE IF celula.estado = "OCUPADO" /\ celula.valor = valor
                   THEN indice
                   ELSE sondagemLacoSemEstado(t, (indice + 1) % t.tamanho,
                                              valor, paraInsercao,
                                              tentativas + 1)
         ELSE IF celula.estado = "VAZIO" THEN t.tamanho
              ELSE IF celula.valor = valor
                   THEN indice
                   ELSE sondagemLacoSemEstado(t, (indice + 1) % t.tamanho,
                                              valor, paraInsercao,
                                              tentativas + 1)

sondagemLinearSemEstado(t, indiceInicial, valor, paraInsercao) ==
    sondagemLacoSemEstado(t, indiceInicial, valor, paraInsercao, 0)

\* TabelaAberta::sondagemLinear
sondagemLinear(t, indiceInicial, valor, paraInsercao) ==
    sondagemLaco(t, indiceInicial, valor, paraInsercao, 0)

\* fatorCarga() > MAX_FATOR_CARGA (0.7): double(n)/double(tamanho) is the
\* correctly rounded quotient and 0.7 the double nearest 7/10, so the
\* comparison is that of the exact rationals.
fatorCargaAcimaDoMaximo(t) == 10 * t.numElementos > 7 * t.tamanho

\* A plausible slip in precisaRehash: the occupancy limit itself already
\* counts as exceeded.
fatorOcupacaoAtingeLimite(t) ==
    2 * (t.numElementos + t.numRemovidos) >= t.tamanho

\* fatorOcupacao() > LIMITE_REHASH_REMOVIDOS (0.5)
fatorOcupacaoAcimaDoLimite(t) ==
    2 * (t.numElementos + t.numRemovidos) > t.tamanho

precisaRehash(t) ==
    fatorCargaAcimaDoMaximo(t) \/ fatorOcupacaoAcimaDoLimite(t)

\* TabelaAberta::buscar
buscarAberta(t, valor, tipo) ==
    sondagemLinear(t, indiceInicialAberta(t, valor, tipo), valor, FALSE)
        < t.tamanho

\* A plausible slip in the tail of inserir: the value is stored but the
\* cell's state is not set to OCUPADO.
efetuarInsercaoSemEstado(t, indice, valor) ==
    LET celula == t.tabela[indice] IN
    IF celula.estado = "OCUPADO" /\ celula.valor = valor
    THEN t
    ELSE [t EXCEPT !.tabela[indice] = [celula EXCEPT !.valor = valor],
                   !.numRemovidos =
                       IF celula.estado = "REMOVIDO" THEN @ - 1 ELSE @,
                   !.numElementos = @ + 1]

\* A plausible slip in the tail of inserir: a reused REMOVIDO cell is not
\* taken off numRemovidos.
efetuarInsercaoSemDecremento(t, indice, valor) ==
    LET celula == t.tabela[indice] IN
    IF celula.estado = "OCUPADO" /\ celula.valor = valor
    THEN t
    ELSE [t EXCEPT !.tabela[indice] = [valor |-> valor, estado |-> "OCUPADO"],
                   !.numElementos = @ + 1]

\* A plausible slip in the tail of inserir: numRemovidos is decremented
\* whatever the state of the target cell was.
efetuarInsercaoDecrementaSempre(t, indice, valor) ==
    LET celula == t.tabela[indice] IN
    IF celula.estado = "OCUPADO" /\ celula.valor = valor
    THEN t
    ELSE [t EXCEPT !.tabela[indice] = [valor |-> valor, estado |-> "OCUPADO"],
                   !.numRemovidos = @ - 1,
                   !.numElementos = @ + 1]

\* The tail of TabelaAberta::inserir, once sondagemLinear has returned a
\* valid indice: the duplicate test, the counters and the write of the cell.
efetuarInsercao(t, indice, valor) ==
    LET celula == t.tabela[indice] IN
    IF celula.estado = "OCUPADO" /\ celula.valor = valor
    THEN t
    ELSE [t EXCEPT !.tabela[indice] = [valor |-> valor, estado |-> "OCUPADO"],
                   !.numRemovidos =
                       IF celula.estado = "REMOVIDO" THEN @ - 1 ELSE @,
                   !.numElementos = @ + 1]

\* A plausible slip in inserir: the load check runs after the cell has been
\* written instead of before.
inserirAbertaVerificaDepois(t, valor, tipo) ==
    LET indice == sondagemLinear(t, indiceInicialAberta(t, valor, tipo),
                                 valor, TRUE)
    IN  IF indice >= t.tamanho
        THEN [t |-> t, ok |-> FALSE, erro |-> "cheia"]
        ELSE LET depois == efetuarInsercao(t, indice, valor) IN
             IF precisaRehash(depois)
             THEN [t |-> depois, ok |-> FALSE, erro |-> "rehash"]
             ELSE [t |-> depois, ok |-> TRUE, erro |-> ""]

\* A plausible slip in inserir: a key that is already stored is recognised
\* before the load check.
inserirAbertaDuplicataPrimeiro(t, valor, tipo) ==
    IF buscarAberta(t, valor, tipo)
    THEN [t |-> t, ok |-> TRUE, erro |-> ""]
    ELSE IF precisaRehash(t)
    THEN [t |-> t, ok |-> FALSE, erro |-> "rehash"]
    ELSE LET indice == sondagemLinear(t, indiceInicialAberta(t, valor, tipo),
                                      valor, TRUE)
         IN  IF indice >= t.tamanho
             THEN [t |-> t, ok |-> FALSE, erro |-> "cheia"]
             ELSE [t |-> efetuarInsercao(t, indice, valor),
                   ok |-> TRUE, erro |-> ""]

\* A plausible slip in inserir: the threshold check is left out.
inserirAbertaSemLimite(t, valor, tipo) ==
    LET indice == sondagemLinear(t, indiceInicialAberta(t, valor, tipo),
                                 valor, TRUE)
    IN  IF indice >= t.tamanho
        THEN [t |-> t, ok |-> FALSE, erro |-> "cheia"]
        ELSE [t |-> efetuarInsercao(t, indice, valor),
              ok |-> TRUE, erro |-> ""]

\* TabelaAberta::inserir: the table after the call and how the call ended
\* (ok, or the std::runtime_error thrown)
inserirAberta(t, valor, tipo) ==
    IF precisaRehash(t)
    THEN [t |-> t, ok |-> FALSE, erro |-> "rehash"]
    ELSE LET indice == sondagemLinear(t, indiceInicialAberta(t, valor, tipo),
                                      valor, TRUE)
         IN  IF indice >= t.tamanho
             THEN [t |-> t, ok |-> FALSE, erro |-> "cheia"]
             ELSE [t |-> efetuarInsercao(t, indice, valor),
                   ok |-> TRUE, erro |-> ""]

\* A plausible slip in remover: the tombstone counter is advanced before the
\* cell found by the probe has been checked.
removerAbertaContaAntes(t, valor, tipo) ==
    LET indice == sondagemLinear(t, indiceInicialAberta(t, valor, tipo),
                                 valor, FALSE)
        u == [t EXCEPT !.numRemovidos = @ + 1]
    IN  IF indice >= t.tamanho
        THEN [t |-> u, ok |-> FALSE, ret |-> 0]
        ELSE LET celula == t.tabela[indice] IN
             IF celula.estado = "OCUPADO" /\ celula.valor = valor
             THEN [t |-> [u EXCEPT
                            !.tabela[indice] = marcarRemovido(celula),
                            !.numElementos = @ - 1],
                   ok |-> TRUE, ret |-> celula.valor]
             ELSE [t |-> u, ok |-> FALSE, ret |-> 0]

\* A plausible slip in remover: eager deletion, the cell is emptied and no
\* tombstone is counted.
removerAbertaSemTumulo(t, valor, tipo) ==
    LET indice == sondagemLinear(t, indiceInicialAberta(t, valor, tipo),
                                 valor, FALSE)
    IN  IF indice >= t.tamanho
        THEN [t |-> t, ok |-> FALSE, ret |-> 0]
        ELSE LET celula == t.tabela[indice] IN
             IF celula.estado = "OCUPADO" /\ celula.valor = valor
             THEN [t |-> [t EXCEPT
                            !.tabela[indice] = CelulaVazia,
                            !.numElementos = @ - 1],
                   ok |-> TRUE, ret |-> celula.valor]
             ELSE [t |-> t, ok |-> FALSE, ret |-> 0]

\* TabelaAberta::remover: the table after the call, whether a value was
\* returned (ok) and the value returned (ret)
removerAberta(t, valor, tipo) ==
    LET indice == sondagemLinear(t, indiceInicialAberta(t, valor, tipo),
                                 valor, FALSE)
    IN  IF indice >= t.tamanho
        THEN [t |-> t, ok |-> FALSE, ret |-> 0]
        ELSE LET celula == t.tabela[indice] IN
             IF celula.estado = "OCUPADO" /\ celula.valor = valor
             THEN [t |-> [t EXCEPT
                            !.tabela[indice] = marcarRemovido(celula),
                            !.numElementos = @ - 1,
                            !.numRemovidos = @ + 1],
                   ok |-> TRUE, ret |-> celula.valor]
             ELSE [t |-> t, ok |-> FALSE, ret |-> 0]

\* A plausible slip in limpar: the tombstone counter is not zeroed.
limparAbertaSemRemovidos(t) ==
    [t EXCEPT !.tabela = [i \in DOMAIN t.tabela |-> CelulaVazia],
              !.numElementos = 0]

\* TabelaAberta::limpar
limparAberta(t) ==
    [t EXCEPT !.tabela = [i \in DOMAIN t.tabela |-> CelulaVazia],
              !.numElementos = 0,
              !.numRemovidos = 0]

Max(a, b) == IF a >= b THEN a ELSE b

\* A plausible slip in the probe count: only the steps are counted, not the
\* probe of the home index itself.
contarSondagensSoPassos(t, indice, i, sondagens) ==
    (i + t.tamanho - indice) % t.tamanho

\* the inner while loop of analisarSondagem: steps from the division home
\* index of the value to the cell i that holds it, with the guard against
\* an endless loop
RECURSIVE contarSondagens(_, _, _, _)
contarSondagens(t, indice, i, sondagens) ==
    IF indice = i THEN sondagens
    ELSE IF sondagens + 1 > t.tamanho THEN sondagens + 1
         ELSE contarSondagens(t, (indice + 1) % t.tamanho, i, sondagens + 1)

\* the first for loop of analisarSondagem, over the cells from i on
RECURSIVE sondagensLaco(_, _, _)
sondagensLaco(t, i, acc) ==
    IF i >= t.tamanho THEN acc
    ELSE IF t.tabela[i].estado = "OCUPADO"
         THEN LET sondagens ==
                      contarSondagens(
                          t, calcularHashDivisao(t.tamanho, t.tabela[i].valor),
                          i, 1)
              IN  sondagensLaco(t, i + 1,
                      [totalSondagens |-> acc.totalSondagens + sondagens,
                       maxSondagens |-> Max(acc.maxSondagens, sondagens),
                       operacoesRealizadas |-> acc.operacoesRealizadas + 1])
         ELSE sondagensLaco(t, i + 1, acc)

\* A plausible slip in the cluster loop: the cell that opens a run is not
\* counted.
RECURSIVE clusterLacoSemPrimeira(_, _, _)
clusterLacoSemPrimeira(t, i, c) ==
    IF i >= t.tamanho THEN c
    ELSE IF t.tabela[i].estado # "VAZIO"
         THEN clusterLacoSemPrimeira(t, i + 1,
                  IF ~c.emCluster
                  THEN [c EXCEPT !.emCluster = TRUE,
                                 !.tamanhoClusterAtual = 0]
                  ELSE [c EXCEPT !.tamanhoClusterAtual = @ + 1])
         ELSE clusterLacoSemPrimeira(t, i + 1,
                  IF c.emCluster
                  THEN [emCluster |-> FALSE,
                        tamanhoClusterAtual |-> 0,
                        clustersDetectados |->
                            IF c.tamanhoClusterAtual > 1
                            THEN c.clustersDetectados + 1
                            ELSE c.clustersDetectados,
                        maiorCluster |->
                            IF c.tamanhoClusterAtual > 1
                            THEN Max(c.maiorCluster, c.tamanhoClusterAtual)
                            ELSE c.maiorCluster]
                  ELSE c)

\* the second for loop of analisarSondagem, over the cells from i on
RECURSIVE clusterLaco(_, _, _)
clusterLaco(t, i, c) ==
    IF i >= t.tamanho THEN c
    ELSE IF t.tabela[i].estado # "VAZIO"
         THEN clusterLaco(t, i + 1,
                  IF ~c.emCluster
                  THEN [c EXCEPT !.emCluster = TRUE,
                                 !.tamanhoClusterAtual = 1]
                  ELSE [c EXCEPT !.tamanhoClusterAtual = @ + 1])
         ELSE clusterLaco(t, i + 1,
                  IF c.emCluster
                  THEN [emCluster |-> FALSE,
                        tamanhoClusterAtual |-> 0,
                        clustersDetectados |->
                            IF c.tamanhoClusterAtual > 1
                            THEN c.clustersDetectados + 1
                            ELSE c.clustersDetectados,
                        maiorCluster |->
                            IF c.tamanhoClusterAtual > 1
                            THEN Max(c.maiorCluster, c.tamanhoClusterAtual)
                            ELSE c.maiorCluster]
                  ELSE c)

\* the while loop of the wrap-around case: the number of non-VAZIO cells
\* from inicio up to the first VAZIO cell or the end of the table
RECURSIVE contarInicio(_, _)
contarInicio(t, inicio) ==
    IF inicio < t.tamanho /\ t.tabela[inicio].estado # "VAZIO"
    THEN 1 + contarInicio(t, inicio + 1)
    ELSE 0

\* the end of analisarSondagem: the cluster still open when the scan
\* reaches the end of the table
fecharCluster(t, c) ==
    IF c.emCluster /\ t.tamanho > 0 /\ t.tabela[0].estado # "VAZIO"
    THEN LET tamanhoClusterAtual ==
                 c.tamanhoClusterAtual + contarInicio(t, 0)
         IN  IF tamanhoClusterAtual > 1
             THEN [c EXCEPT !.clustersDetectados = @ + 1,
                            !.maiorCluster = Max(@, tamanhoClusterAtual)]
             ELSE c
    ELSE IF c.emCluster /\ c.tamanhoClusterAtual > 1
         THEN [c EXCEPT !.clustersDetectados = @ + 1,
                        !.maiorCluster = Max(@, c.tamanhoClusterAtual)]
         ELSE c

\* TabelaAberta::analisarSondagem; sondagemMedia is the quotient
\* totalSondagens / operacoesRealizadas and is kept as its two terms
analisarSondagem(t) ==
    IF t.numElementos = 0
    THEN [totalSondagens |-> 0, operacoesRealizadas |-> 0,
          maxSondagens |-> 0, clustersDetectados |-> 0, maiorCluster |-> 0]
    ELSE LET s == sondagensLaco(t, 0,
                      [totalSondagens |-> 0, maxSondagens |-> 0,
                       operacoesRealizadas |-> 0])
             c == fecharCluster(t,
                      clusterLaco(t, 0,
                          [emCluster |-> FALSE, tamanhoClusterAtual |-> 0,
                           clustersDetectados |-> 0, maiorCluster |-> 0]))
         IN  [totalSondagens |-> s.totalSondagens,
              operacoesRealizadas |-> s.operacoesRealizadas,
              maxSondagens |-> s.maxSondagens,
              clustersDetectados |-> c.clustersDetectados,
              maiorCluster |-> c.maiorCluster]

(***************************************************************************)
(* TabelaEncadeada: each bucket is the sequence of the values of its       *)
(* chain, head first.                                                      *)
(***************************************************************************)
EncadeadaNula ==
    [tabela |-> [i \in {} |-> <<>>], tamanho |-> 0, numElementos |-> 0]

\* TabelaEncadeada::TabelaEncadeada(tam), tam > 0
NovaEncadeada(tam) ==
    [tabela |-> [i \in 0..(tam - 1) |-> <<>>], tamanho |-> tam,
     numElementos |-> 0]

indiceEncadeada(t, valor, tipo) ==
    IF tipo = "DIVISAO"
    THEN calcularHashDivisao(t.tamanho, valor)
    ELSE calcularHashMultiplicacaoEncadeada(t.tamanho, valor)

\* TabelaEncadeada::buscar
buscarEncadeada(t, valor, tipo) ==
    LET lista == t.tabela[indiceEncadeada(t, valor, tipo)]
    IN  \E i \in 1..Len(lista) : lista[i] = valor

\* A plausible slip in inserir: the duplicate check is left out.
inserirEncadeadaSemBusca(t, valor, tipo) ==
    LET indice == indiceEncadeada(t, valor, tipo) IN
    [t EXCEPT !.tabela[indice] = <<valor>> \o @,
              !.numElementos = @ + 1]

\* A plausible slip in inserir: the new node is linked at the end of the
\* chain instead of at its head.
inserirEncadeadaNoFim(t, valor, tipo) ==
    LET indice == indiceEncadeada(t, valor, tipo) IN
    IF buscarEncadeada(t, valor, tipo)
    THEN t
    ELSE [t EXCEPT !.tabela[indice] = @ \o <<valor>>,
                   !.numElementos = @ + 1]

\* A plausible slip in inserir: a load limit as in the open table, the
\* insertion being dropped once there are as many keys as buckets.
inserirEncadeadaComLimite(t, valor, tipo) ==
    LET indice == indiceEncadeada(t, valor, tipo) IN
    IF buscarEncadeada(t, valor, tipo) \/ t.numElementos >= t.tamanho
    THEN t
    ELSE [t EXCEPT !.tabela[indice] = <<valor>> \o @,
                   !.numElementos = @ + 1]

\* TabelaEncadeada::inserir
inserirEncadeada(t, valor, tipo) ==
    LET indice == indiceEncadeada(t, valor, tipo) IN
    IF buscarEncadeada(t, valor, tipo)
    THEN t
    ELSE [t EXCEPT !.tabela[indice] = <<valor>> \o @,
                   !.numElementos = @ + 1]

\* the chain without its element at position p
SemPosicao(lista, p) ==
    [i \in 1..(Len(lista) - 1) |-> IF i < p THEN lista[i] ELSE lista[i + 1]]

\* A plausible slip in remover: the branch that unlinks a node after the
\* head does not decrement numElementos.
removerEncadeadaSemDecremento(t, valor, tipo) ==
    LET indice == indiceEncadeada(t, valor, tipo)
        lista  == t.tabela[indice]
    IN  IF Len(lista) > 0 /\ lista[1] = valor
        THEN [t |-> [t EXCEPT !.tabela[indice] = Tail(lista),
                              !.numElementos = @ - 1],
              ok |-> TRUE]
        ELSE LET achados == {i \in 2..Len(lista) : lista[i] = valor} IN
             IF achados # {}
             THEN LET p == CHOOSE i \in achados : \A j \in achados : i <= j
                  IN  [t |-> [t EXCEPT !.tabela[indice] = SemPosicao(lista, p)],
                       ok |-> TRUE]
             ELSE [t |-> t, ok |-> FALSE]

\* A plausible slip in remover: the walk stops one node early and never
\* looks at the last node of the chain.
removerEncadeadaSemUltimo(t, valor, tipo) ==
    LET indice == indiceEncadeada(t, valor, tipo)
        lista  == t.tabela[indice]
    IN  IF Len(lista) > 0 /\ lista[1] = valor
        THEN [t |-> [t EXCEPT !.tabela[indice] = Tail(lista),
                              !.numElementos = @ - 1],
              ok |-> TRUE]
        ELSE LET achados == {i \in 2..(Len(lista) - 1) : lista[i] = valor} IN
             IF achados # {}
             THEN LET p == CHOOSE i \in achados : \A j \in achados : i <= j
                  IN  [t |-> [t EXCEPT !.tabela[indice] = SemPosicao(lista, p),
                                       !.numElementos = @ - 1],
                       ok |-> TRUE]
             ELSE [t |-> t, ok |-> FALSE]

\* TabelaEncadeada::remover: the head case, then the walk with a trailing
\* pointer, which unlinks the first later node holding valor
removerEncadeada(t, valor, tipo) ==
    LET indice == indiceEncadeada(t, valor, tipo)
        lista  == t.tabela[indice]
    IN  IF Len(lista) > 0 /\ lista[1] = valor
        THEN [t |-> [t EXCEPT !.tabela[indice] = Tail(lista),
                              !.numElementos = @ - 1],
              ok |-> TRUE]
        ELSE LET achados == {i \in 2..Len(lista) : lista[i] = valor} IN
             IF achados # {}
             THEN LET p == CHOOSE i \in achados : \A j \in achados : i <= j
                  IN  [t |-> [t EXCEPT !.tabela[indice] = SemPosicao(lista, p),
                                       !.numElementos = @ - 1],
                       ok |-> TRUE]
             ELSE [t |-> t, ok |-> FALSE]

\* TabelaEncadeada::limpar
limparEncadeada(t) ==
    [t EXCEPT !.tabela = [i \in DOMAIN t.tabela |-> <<>>],
              !.numElementos = 0]

EstatisticasZeradas ==
    [posicoesMenosUtilizada |-> 0, posicoesMaisUtilizada |-> 0,
     posicoes_nao_vazias |-> 0, soma_comprimentos |-> 0,
     totalColisoes |-> 0]

\* A plausible slip in the loop of obterEstatisticas: every node of a chain
\* longer than one is counted as a collision.
RECURSIVE estatisticasLacoContaTodos(_, _, _)
estatisticasLacoContaTodos(t, i, stats) ==
    IF i >= t.tamanho THEN stats
    ELSE LET comprimento == Len(t.tabela[i]) IN
         estatisticasLacoContaTodos(t, i + 1,
             IF comprimento = 0
             THEN [stats EXCEPT !.posicoesMenosUtilizada = @ + 1]
             ELSE [stats EXCEPT
                      !.posicoes_nao_vazias = @ + 1,
                      !.soma_comprimentos = @ + comprimento,
                      !.posicoesMaisUtilizada = Max(@, comprimento),
                      !.totalColisoes =
                          IF comprimento > 1 THEN @ + comprimento ELSE @])

obterEstatisticasContaTodos(t) ==
    estatisticasLacoContaTodos(t, 0, EstatisticasZeradas)

\* the for loop of obterEstatisticas, over the buckets from i on; the walk
\* of a chain counts its nodes
RECURSIVE estatisticasLaco(_, _, _)
estatisticasLaco(t, i, stats) ==
    IF i >= t.tamanho THEN stats
    ELSE LET comprimento == Len(t.tabela[i]) IN
         estatisticasLaco(t, i + 1,
             IF comprimento = 0
             THEN [stats EXCEPT !.posicoesMenosUtilizada = @ + 1]
             ELSE [stats EXCEPT
                      !.posicoes_nao_vazias = @ + 1,
                      !.soma_comprimentos = @ + comprimento,
                      !.posicoesMaisUtilizada = Max(@, comprimento),
                      !.totalColisoes =
                          IF comprimento > 1
                          THEN @ + (comprimento - 1) ELSE @])

\* TabelaEncadeada::obterEstatisticas; comprimentoMedio is the quotient
\* soma_comprimentos / posicoes_nao_vazias and is kept as its two terms
obterEstatisticas(t) == estatisticasLaco(t, 0, EstatisticasZeradas)

(***************************************************************************)
(* CarregadorDados (GeradorDados has the same code): the random numbers.   *)
(* The vector under construction is kept as its length and whether two of  *)
(* its numbers are equal; the generator and the distribution are the free  *)
(* choice of each draw among the values minimo..maximo.                    *)
(***************************************************************************)
\* the default range of the constructor
MINIMO_PADRAO == 1
MAXIMO_PADRAO == 1000000

\* the quantity above which gerarNumerosAleatorios hands over to
\* gerarNumerosAleatoriosComRepeticao
LIMITE_UNICOS == 10000

\* no CarregadorDados constructed yet
SemCarregador ==
    [fase |-> "inexistente", minimo |-> 0, maximo |-> 0, quantidade |-> 0,
     tamanho |-> 0, repetidos |-> FALSE, erro |-> ""]

\* CarregadorDados::CarregadorDados(seed, minimo, maximo)
NovoCarregador(minimo, maximo) ==
    IF minimo >= maximo
    THEN [SemCarregador EXCEPT !.erro = "invalid_argument"]
    ELSE [fase |-> "ocioso", minimo |-> minimo, maximo |-> maximo,
          quantidade |-> 0, tamanho |-> 0, repetidos |-> FALSE, erro |-> ""]

\* the number of values of the distribution
Faixa(g) == g.maximo - g.minimo + 1

\* entry of gerarNumerosAleatorios: the check of the quantity and the choice
\* between the loop with the set and gerarNumerosAleatoriosComRepeticao
iniciarGeracao(g, quantidade) ==
    IF quantidade = 0
    THEN [g EXCEPT !.fase = "pronto", !.quantidade = 0, !.tamanho = 0,
                   !.repetidos = FALSE, !.erro = "invalid_argument"]
    ELSE [g EXCEPT !.fase = IF quantidade > LIMITE_UNICOS
                            THEN "comRepeticao" ELSE "unicos",
                   !.quantidade = quantidade, !.tamanho = 0,
                   !.repetidos = FALSE, !.erro = ""]

\* one pass of the while loop of gerarNumerosAleatorios: the number drawn is
\* pushed only if the set did not hold it (novo)
sortearUnico(g, novo) ==
    IF novo THEN [g EXCEPT !.tamanho = @ + 1] ELSE g

\* one pass of the for loop of gerarNumerosAleatoriosComRepeticao: the
\* number drawn is pushed whether the vector holds it or not
sortearComRepeticao(g, novo) ==
    [g EXCEPT !.tamanho = @ + 1, !.repetidos = @ \/ ~novo]

\* a number not yet in the vector can be drawn (while no two numbers of
\* the vector are equal, its length is the number of values used up)
PodeSortearNovo(g) == g.repetidos \/ g.tamanho < Faixa(g)

\* a number already in the vector can be drawn
PodeSortearVelho(g) == g.tamanho >= 1

(***************************************************************************)
(* TabelaHashAberta (src/src/TabelaHashAberta.cpp): the simpler open       *)
(* table.  Its cells are those of TabelaAberta; the .cpp has no remover,   *)
(* no limpar and no counter of removed cells.                              *)
(***************************************************************************)
\* the object before its constructor has run
HashAbertaNula ==
    [tabela |-> [i \in {} |-> CelulaVazia], tamanho |-> 0,
     numElementos |-> 0]

\* TabelaHashAberta::TabelaHashAberta(tam), tam > 0
NovaHashAberta(tam) ==
    [tabela |-> [i \in 0..(tam - 1) |-> CelulaVazia], tamanho |-> tam,
     numElementos |-> 0]

\* TabelaHashAberta::calcularHashDivisao / calcularHashMultiplicacao, chosen
\* by tipo; the multiplication constant is that of TabelaAberta
indiceInicialHashAberta(t, valor, tipo) ==
    IF tipo = "DIVISAO"
    THEN calcularHashDivisao(t.tamanho, valor)
    ELSE HashMultiplicacao(t.tamanho, valor, CONSTANTE_MULTIPLICACAO_ABERTA)

\* the while loop of TabelaHashAberta::sondagemLinear; the result tamanho
\* stands for the exception thrown after tamanho attempts
RECURSIVE sondagemLacoHashAberta(_, _, _, _)
sondagemLacoHashAberta(t, indice, valor, tentativas) ==
    IF tentativas >= t.tamanho
    THEN t.tamanho
    ELSE IF \/ t.tabela[indice].estado = "VAZIO"
            \/ t.tabela[indice].estado = "REMOVIDO"
            \/ /\ t.tabela[indice].estado = "OCUPADO"
               /\ t.tabela[indice].valor = valor
         THEN indice
         ELSE sondagemLacoHashAberta(t, (indice + 1) % t.tamanho, valor,
                                     tentativas + 1)

sondagemLinearHashAberta(t, indiceInicial, valor) ==
    sondagemLacoHashAberta(t, indiceInicial, valor, 0)

\* fatorCarga() >= MAX_FATOR_CARGA: numElementos / tamanho >= 0.7
fatorCargaAtingeMaximo(t) == 10 * t.numElementos >= 7 * t.tamanho

\* TabelaHashAberta::inserir
inserirHashAberta(t, valor, tipo) ==
    IF fatorCargaAtingeMaximo(t)
    THEN [t |-> t, ok |-> FALSE, erro |-> "fatorCarga"]
    ELSE LET indice == sondagemLinearHashAberta(
                           t, indiceInicialHashAberta(t, valor, tipo), valor)
         IN  IF indice = t.tamanho
             THEN [t |-> t, ok |-> FALSE, erro |-> "cheia"]
             ELSE IF /\ t.tabela[indice].estado = "OCUPADO"
                     /\ t.tabela[indice].valor = valor
                  THEN [t |-> t, ok |-> TRUE, erro |-> ""]
                  ELSE IF t.tabela[indice].estado # "OCUPADO"
                       THEN [t |-> [t EXCEPT
                                      !.tabela[indice] =
                                          [valor |-> valor,
                                           estado |-> "OCUPADO"],
                                      !.numElementos = @ + 1],
                             ok |-> TRUE, erro |-> ""]
                       ELSE [t |-> t, ok |-> TRUE, erro |-> ""]

\* the while loop of TabelaHashAberta::buscar
RECURSIVE buscarLacoHashAberta(_, _, _, _)
buscarLacoHashAberta(t, indice, valor, tentativas) ==
    IF tentativas >= t.tamanho \/ t.tabela[indice].estado = "VAZIO"
    THEN FALSE
    ELSE IF /\ t.tabela[indice].estado = "OCUPADO"
            /\ t.tabela[indice].valor = valor
         THEN TRUE
         ELSE buscarLacoHashAberta(t, (indice + 1) % t.tamanho, valor,
                                   tentativas + 1)

\* TabelaHashAberta::buscar
buscarHashAberta(t, valor, tipo) ==
    buscarLacoHashAberta(t, indiceInicialHashAberta(t, valor, tipo), valor, 0)

\* what a call on the TabelaHashAberta returned: ok is the absence of an
\* exception for inserir and the result for buscar
Resultado(ok, erro) == [ok |-> ok, erro |-> erro]

SemResultado == Resultado(TRUE, "")

(***************************************************************************)
(* BenchmarkManager::testarTabelaAberta (src/src/main.cpp): the insertion  *)
(* loops of the benchmark.  The table of the benchmark only sees inserir   *)
(* with one hash kind and no remover, so that what inserir does is fixed   *)
(* by the counters of the table and by whether the value is already        *)
(* stored; the table is kept as its counters.                              *)
(***************************************************************************)
\* const size_t TAM
TAM == 50009

\* the sizes of the datasets of ARQUIVOS
TAMANHOS_DATASET == {100, 500, 1000, 5000, 10000, 50000}

\* the counters of a TabelaAberta after its constructor
NovaContagem(tam) ==
    [tamanho |-> tam, numElementos |-> 0, numRemovidos |-> 0]

\* TabelaAberta::inserir on the counters of a table without REMOVIDO
\* cells: the threshold check, then either the duplicate is found or the
\* value is stored in a free cell, which exists because at most half of the
\* cells are in use when the check passes
inserirContado(t, novo) ==
    IF precisaRehash(t)
    THEN [t |-> t, ok |-> FALSE]
    ELSE IF novo
         THEN [t |-> [t EXCEPT !.numElementos = @ + 1], ok |-> TRUE]
         ELSE [t |-> t, ok |-> TRUE]

\* no call of testarTabelaAberta yet
SemBenchmark ==
    [fase |-> "inexistente", quantidade |-> 0, posicao |-> 0,
     tabela |-> NovaContagem(0), repetidos |-> 0, interrompido |-> FALSE]

\* the start of one of the two blocks of testarTabelaAberta: a new table of
\* capacity TAM, the loop at the first value of dados
NovoBloco(fase, quantidade) ==
    [fase |-> fase, quantidade |-> quantidade, posicao |-> 0,
     tabela |-> NovaContagem(TAM), repetidos |-> 0, interrompido |-> FALSE]

\* one iteration of "for (int valor : dados)": inserir, and break when it
\* throws; novo tells whether the value differs from all earlier values of
\* dados, which are the stored ones
iterarInsercao(b, novo) ==
    LET r == inserirContado(b.tabela, novo) IN
    IF r.ok
    THEN [b EXCEPT !.tabela = r.t, !.posicao = @ + 1,
                   !.repetidos = IF novo THEN @ ELSE @ + 1]
    ELSE [b EXCEPT !.interrompido = TRUE]

(***************************************************************************)
(* The caller: one action per call.                                        *)
(***************************************************************************)
Chamada(op, valor, tipo, ok, ret, erro) ==
    [op |-> op, valor |-> valor, tipo |-> tipo, ok |-> ok, ret |-> ret,
     erro |-> erro]

SemTabela == aberta.tamanho = 0 /\ encadeada.tamanho = 0

Init ==
    /\ aberta = AbertaNula
    /\ encadeada = EncadeadaNula
    /\ ult = Chamada("nenhuma", 0, "DIVISAO", TRUE, 0, "")
    /\ inseridos = {}
    /\ tipos = {}
    /\ numeros = SemCarregador
    /\ variante = HashAbertaNula
    /\ ultVariante = SemResultado
    /\ bench = SemBenchmark

\* A plausible slip in the constructor: the capacity is not checked.
ConstruirAbertaSemVerificar(tam) ==
    /\ SemTabela
    /\ aberta' = NovaAberta(tam)
    /\ ult' = Chamada("construirAberta", tam, "DIVISAO", TRUE, 0, "")
    /\ UNCHANGED <<encadeada, inseridos, tipos>>
    /\ UNCHANGED <<numeros, variante, ultVariante, bench>>

\* new TabelaAberta(tam): throws std::invalid_argument for tam = 0
ConstruirAberta(tam) ==
    /\ SemTabela
    /\ aberta' = IF tam = 0 THEN AbertaNula ELSE NovaAberta(tam)
    /\ ult' = Chamada("construirAberta", tam, "DIVISAO", tam # 0, 0,
                      IF tam = 0 THEN "invalid_argument" ELSE "")
    /\ UNCHANGED <<encadeada, inseridos, tipos>>
    /\ UNCHANGED <<numeros, variante, ultVariante, bench>>

\* new TabelaEncadeada(tam): throws std::invalid_argument for tam = 0
ConstruirEncadeada(tam) ==
    /\ SemTabela
    /\ encadeada' = IF tam = 0 THEN EncadeadaNula ELSE NovaEncadeada(tam)
    /\ ult' = Chamada("construirEncadeada", tam, "DIVISAO", tam # 0, 0,
                      IF tam = 0 THEN "invalid_argument" ELSE "")
    /\ UNCHANGED <<aberta, inseridos, tipos>>
    /\ UNCHANGED <<numeros, variante, ultVariante, bench>>

InserirAberta(valor, tipo) ==
    /\ aberta.tamanho > 0
    /\ LET r == inserirAberta(aberta, valor, tipo) IN
       /\ aberta' = r.t
       /\ ult' = Chamada("inserir", valor, tipo, r.ok, 0, r.erro)
    /\ inseridos' = inseridos \cup {valor}
    /\ tipos' = tipos \cup {tipo}
    /\ UNCHANGED encadeada
    /\ UNCHANGED <<numeros, variante, ultVariante, bench>>

BuscarAberta(valor, tipo) ==
    /\ aberta.tamanho > 0
    /\ ult' = Chamada("buscar", valor, tipo,
                      buscarAberta(aberta, valor, tipo), 0, "")
    /\ UNCHANGED <<aberta, encadeada, inseridos, tipos>>
    /\ UNCHANGED <<numeros, variante, ultVariante, bench>>

RemoverAberta(valor, tipo) ==
    /\ aberta.tamanho > 0
    /\ LET r == removerAberta(aberta, valor, tipo) IN
       /\ aberta' = r.t
       /\ ult' = Chamada("remover", valor, tipo, r.ok, r.ret, "")
    /\ tipos' = tipos \cup {tipo}
    /\ UNCHANGED <<encadeada, inseridos>>
    /\ UNCHANGED <<numeros, variante, ultVariante, bench>>

LimparAberta ==
    /\ aberta.tamanho > 0
    /\ aberta' = limparAberta(aberta)
    /\ ult' = Chamada("limpar", 0, "DIVISAO", TRUE, 0, "")
    /\ inseridos' = {}
    /\ UNCHANGED <<encadeada, tipos>>
    /\ UNCHANGED <<numeros, variante, ultVariante, bench>>

\* analisarSondagem() is const; the caller sees the statistics
AnalisarSondagem ==
    /\ aberta.tamanho > 0
    /\ ult' = Chamada("analisarSondagem", 0, "DIVISAO", TRUE,
                      analisarSondagem(aberta).clustersDetectados, "")
    /\ UNCHANGED <<aberta, encadeada, inseridos, tipos>>
    /\ UNCHANGED <<numeros, variante, ultVariante, bench>>

InserirEncadeada(valor, tipo) ==
    /\ encadeada.tamanho > 0
    /\ encadeada' = inserirEncadeada(encadeada, valor, tipo)
    /\ ult' = Chamada("inserir", valor, tipo, TRUE, 0, "")
    /\ inseridos' = inseridos \cup {valor}
    /\ tipos' = tipos \cup {tipo}
    /\ UNCHANGED aberta
    /\ UNCHANGED <<numeros, variante, ultVariante, bench>>

BuscarEncadeada(valor, tipo) ==
    /\ encadeada.tamanho > 0
    /\ ult' = Chamada("buscar", valor, tipo,
                      buscarEncadeada(encadeada, valor, tipo), 0, "")
    /\ UNCHANGED <<aberta, encadeada, inseridos, tipos>>
    /\ UNCHANGED <<numeros, variante, ultVariante, bench>>

RemoverEncadeada(valor, tipo) ==
    /\ encadeada.tamanho > 0
    /\ LET r == removerEncadeada(encadeada, valor, tipo) IN
       /\ encadeada' = r.t
       /\ ult' = Chamada("remover", valor, tipo, r.ok, 0, "")
    /\ tipos' = tipos \cup {tipo}
    /\ UNCHANGED <<aberta, inseridos>>
    /\ UNCHANGED <<numeros, variante, ultVariante, bench>>

LimparEncadeada ==
    /\ encadeada.tamanho > 0
    /\ encadeada' = limparEncadeada(encadeada)
    /\ ult' = Chamada("limpar", 0, "DIVISAO", TRUE, 0, "")
    /\ inseridos' = {}
    /\ UNCHANGED <<aberta, tipos>>
    /\ UNCHANGED <<numeros, variante, ultVariante, bench>>

\* obterEstatisticas() is const; the caller sees the statistics
ObterEstatisticas ==
    /\ encadeada.tamanho > 0
    /\ ult' = Chamada("obterEstatisticas", 0, "DIVISAO", TRUE,
                      obterEstatisticas(encadeada).totalColisoes, "")
    /\ UNCHANGED <<aberta, encadeada, inseridos, tipos>>
    /\ UNCHANGED <<numeros, variante, ultVariante, bench>>

Next ==
    \/ \E tam \in 0..MaxTam : ConstruirAberta(tam)
    \/ \E tam \in 0..MaxTam : ConstruirEncadeada(tam)
    \/ \E valor \in Chaves, tipo \in TipoHash : InserirAberta(valor, tipo)
    \/ \E valor \in Chaves, tipo \in TipoHash : BuscarAberta(valor, tipo)
    \/ \E valor \in Chaves, tipo \in TipoHash : RemoverAberta(valor, tipo)
    \/ LimparAberta
    \/ AnalisarSondagem
    \/ \E valor \in Chaves, tipo \in TipoHash : InserirEncadeada(valor, tipo)
    \/ \E valor \in Chaves, tipo \in TipoHash : BuscarEncadeada(valor, tipo)
    \/ \E valor \in Chaves, tipo \in TipoHash : RemoverEncadeada(valor, tipo)
    \/ LimparEncadeada
    \/ ObterEstatisticas

Spec == Init /\ [][Next]_vars

\* A caller that works on one open table with the division hash only, as
\* testarTabelaAberta does with one hash kind per table.
NextBorda ==
    \/ \E tam \in 0..TamBorda : ConstruirAberta(tam)
    \/ \E valor \in ChavesBorda : InserirAberta(valor, "DIVISAO")
    \/ \E valor \in ChavesBorda : BuscarAberta(valor, "DIVISAO")
    \/ \E valor \in ChavesBorda : RemoverAberta(valor, "DIVISAO")
    \/ LimparAberta
    \/ AnalisarSondagem

SpecBorda == Init /\ [][NextBorda]_vars

\* A caller that fills one open table of capacity TamCluster with keys of
\* home index 0 and asks for the probing statistics.
NextCluster ==
    \/ ConstruirAberta(TamCluster)
    \/ \E valor \in ChavesCluster : InserirAberta(valor, "DIVISAO")
    \/ AnalisarSondagem

SpecCluster == Init /\ [][NextCluster]_vars

\* a call of the public calcularHashDivisao of either table
CalcularHashDivisao(chave) ==
    /\ ~SemTabela
    /\ \E indice \in resultadosHashDivisao(
                          aberta.tamanho + encadeada.tamanho, chave) :
           ult' = Chamada("calcularHashDivisao", chave, "DIVISAO", TRUE,
                          indice, "")
    /\ UNCHANGED <<aberta, encadeada, inseridos, tipos>>
    /\ UNCHANGED <<numeros, variante, ultVariante, bench>>

\* A caller that constructs a table and asks for division indices.
NextHash ==
    \/ \E tam \in 0..TamHash : ConstruirAberta(tam)
    \/ \E tam \in 0..TamHash : ConstruirEncadeada(tam)
    \/ \E chave \in ChavesHash : CalcularHashDivisao(chave)

SpecHash == Init /\ [][NextHash]_vars

ConstruirCarregador(minimo, maximo) ==
    /\ numeros.fase = "inexistente"
    /\ numeros' = NovoCarregador(minimo, maximo)
    /\ UNCHANGED <<aberta, encadeada, ult, inseridos, tipos>>
    /\ UNCHANGED <<variante, ultVariante, bench>>

\* the call of gerarNumerosAleatorios(quantidade) up to its first loop
GerarNumerosAleatorios(quantidade) ==
    /\ numeros.fase \in {"ocioso", "pronto"}
    /\ numeros' = iniciarGeracao(numeros, quantidade)
    /\ UNCHANGED <<aberta, encadeada, ult, inseridos, tipos>>
    /\ UNCHANGED <<variante, ultVariante, bench>>

SortearUnico ==
    /\ numeros.fase = "unicos"
    /\ numeros.tamanho < numeros.quantidade
    /\ \E novo \in BOOLEAN :
           /\ IF novo THEN PodeSortearNovo(numeros)
                      ELSE PodeSortearVelho(numeros)
           /\ numeros' = sortearUnico(numeros, novo)
    /\ UNCHANGED <<aberta, encadeada, ult, inseridos, tipos>>
    /\ UNCHANGED <<variante, ultVariante, bench>>

SortearComRepeticao ==
    /\ numeros.fase = "comRepeticao"
    /\ numeros.tamanho < numeros.quantidade
    /\ \E novo \in BOOLEAN :
           /\ IF novo THEN PodeSortearNovo(numeros)
                      ELSE PodeSortearVelho(numeros)
           /\ numeros' = sortearComRepeticao(numeros, novo)
    /\ UNCHANGED <<aberta, encadeada, ult, inseridos, tipos>>
    /\ UNCHANGED <<variante, ultVariante, bench>>

\* the loop has ended and the vector is returned
RetornarNumeros ==
    /\ numeros.fase \in {"unicos", "comRepeticao"}
    /\ numeros.tamanho >= numeros.quantidade
    /\ numeros' = [numeros EXCEPT !.fase = "pronto"]
    /\ UNCHANGED <<aberta, encadeada, ult, inseridos, tipos>>
    /\ UNCHANGED <<variante, ultVariante, bench>>

\* A caller that constructs a CarregadorDados with the default range or a
\* small one and asks for small quantities and for the quantities on both
\* sides of LIMITE_UNICOS.
NextGerador ==
    \/ \E maximo \in (1..MaxMaximo) \cup {MAXIMO_PADRAO} :
           ConstruirCarregador(MINIMO_PADRAO, maximo)
    \/ \E quantidade \in (0..MaxQuantidade)
                             \cup {LIMITE_UNICOS, LIMITE_UNICOS + 1} :
           GerarNumerosAleatorios(quantidade)
    \/ SortearUnico
    \/ SortearComRepeticao
    \/ RetornarNumeros

SpecGerador == Init /\ [][NextGerador]_vars

\* the call of testarTabelaAberta(dados, dadosBusca) up to the first loop,
\* dados.size() = quantidade
TestarTabelaAberta(quantidade) ==
    /\ bench.fase \in {"inexistente", "fim"}
    /\ bench' = NovoBloco("inserindoDivisao", quantidade)
    /\ UNCHANGED <<aberta, encadeada, ult, inseridos, tipos>>
    /\ UNCHANGED <<numeros, variante, ultVariante>>

\* an iteration of the insertion loop of either block; a dataset has at
\* most MaxRepetidosDados values that repeat an earlier one
IterarInsercao ==
    /\ bench.fase \in {"inserindoDivisao", "inserindoMultiplicacao"}
    /\ bench.posicao < bench.quantidade
    /\ ~bench.interrompido
    /\ \E novo \in BOOLEAN :
           /\ novo \/ /\ bench.posicao >= 1
                      /\ bench.repetidos < MaxRepetidosDados
           /\ bench' = iterarInsercao(bench, novo)
    /\ UNCHANGED <<aberta, encadeada, ult, inseridos, tipos>>
    /\ UNCHANGED <<numeros, variante, ultVariante>>

\* the loop has ended or was left by break: the searches, which change
\* nothing, and resultados.push_back with getNumElementos()
RegistrarResultado ==
    /\ bench.fase \in {"inserindoDivisao", "inserindoMultiplicacao"}
    /\ bench.posicao >= bench.quantidade \/ bench.interrompido
    /\ bench' = [bench EXCEPT !.fase = IF @ = "inserindoDivisao"
                                       THEN "registradoDivisao"
                                       ELSE "registradoMultiplicacao"]
    /\ UNCHANGED <<aberta, encadeada, ult, inseridos, tipos>>
    /\ UNCHANGED <<numeros, variante, ultVariante>>

\* the block is left: the second block starts with its own table, or the
\* function returns
ProximoBloco ==
    /\ bench.fase \in {"registradoDivisao", "registradoMultiplicacao"}
    /\ bench' = IF bench.fase = "registradoDivisao"
                THEN NovoBloco("inserindoMultiplicacao", bench.quantidade)
                ELSE [bench EXCEPT !.fase = "fim"]
    /\ UNCHANGED <<aberta, encadeada, ult, inseridos, tipos>>
    /\ UNCHANGED <<numeros, variante, ultVariante>>

\* main: testarTabelaAberta for the dataset of each file of ARQUIVOS
NextBenchmark ==
    \/ \E quantidade \in TAMANHOS_DATASET : TestarTabelaAberta(quantidade)
    \/ IterarInsercao
    \/ RegistrarResultado
    \/ ProximoBloco

SpecBenchmark == Init /\ [][NextBenchmark]_vars

\* a test driver that constructs a TabelaAberta and a TabelaHashAberta of
\* the same capacity
ConstruirVariantes(tam) ==
    /\ SemTabela
    /\ variante.tamanho = 0
    /\ aberta' = IF tam = 0 THEN AbertaNula ELSE NovaAberta(tam)
    /\ variante' = IF tam = 0 THEN HashAbertaNula ELSE NovaHashAberta(tam)
    /\ ult' = Chamada("construirVariantes", tam, "DIVISAO", tam # 0, 0,
                      IF tam = 0 THEN "invalid_argument" ELSE "")
    /\ ultVariante' = Resultado(tam # 0,
                                IF tam = 0 THEN "invalid_argument" ELSE "")
    /\ UNCHANGED <<encadeada, inseridos, tipos, numeros, bench>>

\* inserir(valor, tipo) on both tables; the driver uses one hash kind per
\* pair of tables
InserirNasVariantes(valor, tipo) ==
    /\ tipos \subseteq {tipo}
    /\ aberta.tamanho > 0
    /\ variante.tamanho > 0
    /\ LET r == inserirAberta(aberta, valor, tipo)
           v == inserirHashAberta(variante, valor, tipo)
       IN  /\ aberta' = r.t
           /\ ult' = Chamada("inserirNasVariantes", valor, tipo, r.ok, 0,
                             r.erro)
           /\ variante' = v.t
           /\ ultVariante' = Resultado(v.ok, v.erro)
    /\ inseridos' = inseridos \cup {valor}
    /\ tipos' = tipos \cup {tipo}
    /\ UNCHANGED <<encadeada, numeros, bench>>

\* buscar(valor, tipo) on both tables
BuscarNasVariantes(valor, tipo) ==
    /\ tipos \subseteq {tipo}
    /\ aberta.tamanho > 0
    /\ variante.tamanho > 0
    /\ ult' = Chamada("buscarNasVariantes", valor, tipo,
                      buscarAberta(aberta, valor, tipo), 0, "")
    /\ ultVariante' = Resultado(buscarHashAberta(variante, valor, tipo), "")
    /\ UNCHANGED <<aberta, encadeada, inseridos, tipos, numeros, variante,
                   bench>>

NextVariantes ==
    \/ \E tam \in 0..MaxTam : ConstruirVariantes(tam)
    \/ \E valor \in Chaves, tipo \in TipoHash :
           InserirNasVariantes(valor, tipo)
    \/ \E valor \in Chaves, tipo \in TipoHash :
           BuscarNasVariantes(valor, tipo)

SpecVariantes == Init /\ [][NextVariantes]_vars

\* The same caller with fair random draws: a loop that can draw a number
\* that lets it advance eventually draws one, and a loop that has ended
\* returns.  A draw of SortearUnico that finds its number in the set changes
\* nothing and is no progress.
SpecGeradorJusto ==
    /\ Init
    /\ [][NextGerador]_vars
    /\ WF_vars(SortearUnico)
    /\ WF_vars(SortearComRepeticao)
    /\ WF_vars(RetornarNumeros)

(***************************************************************************)
(* Properties.                                                             *)
(***************************************************************************)
Ocupadas(t) == {i \in DOMAIN t.tabela : t.tabela[i].estado = "OCUPADO"}
Removidas(t) == {i \in DOMAIN t.tabela : t.tabela[i].estado = "REMOVIDO"}

\* every inserir / remover call so far selected the same hash kind
UmTipo == Cardinality(tipos) <= 1

\* C1: TabelaAberta, all calls with one hash kind: no key value is held by
\* more than one OCUPADO cell.
C1_ChaveEmUmaSoCelula ==
    UmTipo =>
        \A i, j \in Ocupadas(aberta) :
            aberta.tabela[i].valor = aberta.tabela[j].valor => i = j

\* C2: TabelaAberta: right after remover(k, h) has returned a value,
\* buscar(k, h) returns not-found.  Stated for the call sequences that keep
\* to one hash kind, the usage the class documents; the claim makes it of
\* every reachable state.
C2_RemovidoNaoEncontrado ==
    (UmTipo /\ aberta.tamanho > 0 /\ ult.op = "remover" /\ ult.ok) =>
        ~buscarAberta(aberta, ult.valor, ult.tipo)

\* C3: TabelaAberta: remover(k, h) changes the result of buscar(j, h') for
\* no key j other than k and no hash kind h', also when the probe sequence
\* of j passes through the cell that became a tombstone.
C3_RemoverPreservaOutrasBuscas ==
    [][(aberta.tamanho > 0 /\ ult'.op = "remover") =>
           \A j \in Chaves \ {ult'.valor}, h \in TipoHash :
               buscarAberta(aberta', j, h) = buscarAberta(aberta, j, h)]_vars

\* C3 witness: a remover has just made the only tombstone of the table, it
\* lies on the home index of another key, and that key is still found.
C3_Witness ==
    /\ aberta.tamanho > 0 /\ ult.op = "remover" /\ ult.ok
    /\ aberta.numRemovidos = 1
    /\ \E j \in Chaves \ {ult.valor} :
          /\ aberta.tabela[indiceInicialAberta(aberta, j, ult.tipo)].estado
                 = "REMOVIDO"
          /\ buscarAberta(aberta, j, ult.tipo)

\* C4: both tables, every capacity: right after an inserir(k, h) that did
\* not fail, buscar(k, h) returns found.
C4_InseridoEncontrado ==
    (ult.op = "inserir" /\ ult.ok) =>
        /\ aberta.tamanho > 0 => buscarAberta(aberta, ult.valor, ult.tipo)
        /\ encadeada.tamanho > 0 =>
               buscarEncadeada(encadeada, ult.valor, ult.tipo)

\* C4 witness: an inserir has succeeded on a TabelaAberta and its key lives
\* away from its home index (it was displaced by probing).
C4_Witness ==
    /\ aberta.tamanho > 0 /\ ult.op = "inserir" /\ ult.ok
    /\ LET casa == aberta.tabela[indiceInicialAberta(aberta, ult.valor,
                                                     ult.tipo)]
       IN  casa.estado = "OCUPADO" /\ casa.valor # ult.valor

\* C5: TabelaAberta: numElementos is the number of OCUPADO cells,
\* numRemovidos the number of REMOVIDO cells, and their sum is at most the
\* capacity.
C5_Contadores ==
    /\ aberta.numElementos = Cardinality(Ocupadas(aberta))
    /\ aberta.numRemovidos = Cardinality(Removidas(aberta))
    /\ aberta.numElementos + aberta.numRemovidos <= aberta.tamanho

\* C5 witness: after an inserir, live keys and a tombstone coexist.
C5_Witness ==
    /\ aberta.tamanho > 0 /\ ult.op = "inserir" /\ ult.ok
    /\ aberta.numElementos >= 2 /\ aberta.numRemovidos >= 1

\* C6: both tables, all calls with one hash kind: getNumElementos() is at
\* most the number of distinct keys passed to inserir since construction or
\* the last limpar.
C6_TamanhoLimitadoPelasChavesDistintas ==
    UmTipo =>
        /\ aberta.numElementos <= Cardinality(inseridos)
        /\ encadeada.numElementos <= Cardinality(inseridos)

\* C7: TabelaAberta: an inserir that fails leaves every cell, numElementos
\* and numRemovidos as they were before the call.
C7_FalhaNaoAltera ==
    [][(aberta.tamanho > 0 /\ ult'.op = "inserir" /\ ~ult'.ok) =>
           aberta' = aberta]_vars

\* C7 witness: an inserir has been refused on a table that holds live keys
\* and a tombstone.
C7_Witness ==
    /\ aberta.tamanho > 0 /\ ult.op = "inserir" /\ ~ult.ok
    /\ aberta.numElementos >= 1 /\ aberta.numRemovidos >= 1

\* C9 as claimed: TabelaEncadeada, whichever hash kind each call selects: a
\* key value is in at most one node over all buckets.
C9_ChaveEmUmSoNo ==
    \A b1, b2 \in DOMAIN encadeada.tabela :
        \A i1 \in 1..Len(encadeada.tabela[b1]),
           i2 \in 1..Len(encadeada.tabela[b2]) :
            encadeada.tabela[b1][i1] = encadeada.tabela[b2][i2] =>
                b1 = b2 /\ i1 = i2

\* C9 as amended: when every inserir and remover call selects the same hash
\* kind, a key value is in at most one node over all buckets.
C9_ChaveEmUmSoNoComUmTipo == UmTipo => C9_ChaveEmUmSoNo

\* C9 witness: all calls used one hash kind and the last one, an inserir,
\* was given a key that sits behind the head of its chain: the key was
\* already stored and has not been stored again.
C9_Witness ==
    /\ encadeada.tamanho > 0 /\ Cardinality(tipos) = 1
    /\ ult.op = "inserir"
    /\ LET lista == encadeada.tabela[indiceEncadeada(encadeada, ult.valor,
                                                     ult.tipo)]
       IN  /\ Len(lista) >= 2
           /\ lista[1] # ult.valor
           /\ \E i \in 2..Len(lista) : lista[i] = ult.valor

RECURSIVE SomaComprimentos(_, _)
SomaComprimentos(t, n) ==
    IF n = 0 THEN 0
    ELSE Len(t.tabela[n - 1]) + SomaComprimentos(t, n - 1)

\* C10: TabelaEncadeada: numElementos is the total number of nodes over all
\* bucket chains.
C10_ContadorDeNos ==
    encadeada.numElementos = SomaComprimentos(encadeada, encadeada.tamanho)

\* C10 witness: a remover has unlinked a node and nodes remain.
C10_Witness ==
    /\ encadeada.tamanho > 0 /\ ult.op = "remover" /\ ult.ok
    /\ encadeada.numElementos >= 2

\* the indices that the search branch of the loop of sondagemLinear
\* inspects, in order
RECURSIVE celulasInspecionadas(_, _, _, _)
celulasInspecionadas(t, indice, valor, tentativas) ==
    IF tentativas >= t.tamanho THEN <<>>
    ELSE LET celula == t.tabela[indice] IN
         IF celula.estado = "VAZIO" THEN <<indice>>
         ELSE IF celula.estado = "OCUPADO" /\ celula.valor = valor
              THEN <<indice>>
              ELSE <<indice>> \o celulasInspecionadas(
                       t, (indice + 1) % t.tamanho, valor, tentativas + 1)

\* the cell d steps after the home index of valor, in circular order
CelulaNoCaminho(t, valor, tipo, d) ==
    t.tabela[(indiceInicialAberta(t, valor, tipo) + d) % t.tamanho]

\* an OCUPADO cell holding valor is met, within tamanho cells from the home
\* index, before any VAZIO cell
AchadoAntesDeVazio(t, valor, tipo) ==
    \E d \in 0..(t.tamanho - 1) :
        /\ CelulaNoCaminho(t, valor, tipo, d).estado = "OCUPADO"
        /\ CelulaNoCaminho(t, valor, tipo, d).valor = valor
        /\ \A e \in 0..(d - 1) :
               CelulaNoCaminho(t, valor, tipo, e).estado # "VAZIO"

\* capacity 5, division hash, after inserir(2), inserir(7), inserir(12)
Exemplo2_7_12 ==
    inserirAberta(
        inserirAberta(
            inserirAberta(NovaAberta(5), 2, "DIVISAO").t,
            7, "DIVISAO").t,
        12, "DIVISAO").t

\* C11: TabelaAberta: buscar(k, h) returns found exactly when, walking at
\* most tamanho cells circularly from the home index, an OCUPADO cell
\* holding k is met before the first VAZIO cell, REMOVIDO cells being walked
\* over; with 2, 7, 12 in slots 2, 3, 4 of a table of 5, buscar(17) inspects
\* 2, 3, 4, 0 and returns not-found.
C11_BuscarPeloCaminho ==
    /\ aberta.tamanho > 0 =>
           \A k \in Chaves, h \in TipoHash :
               buscarAberta(aberta, k, h) = AchadoAntesDeVazio(aberta, k, h)
    /\ Exemplo2_7_12.tabela[2] = [valor |-> 2, estado |-> "OCUPADO"]
    /\ Exemplo2_7_12.tabela[3] = [valor |-> 7, estado |-> "OCUPADO"]
    /\ Exemplo2_7_12.tabela[4] = [valor |-> 12, estado |-> "OCUPADO"]
    /\ celulasInspecionadas(Exemplo2_7_12,
                            calcularHashDivisao(5, 17), 17, 0)
           = <<2, 3, 4, 0>>
    /\ ~buscarAberta(Exemplo2_7_12, 17, "DIVISAO")

\* C11 witness: a buscar has found its key although the cell at the key's
\* home index is a tombstone.
C11_Witness ==
    /\ aberta.tamanho > 0 /\ ult.op = "buscar" /\ ult.ok
    /\ CelulaNoCaminho(aberta, ult.valor, ult.tipo, 0).estado = "REMOVIDO"

Minimo(S) == CHOOSE x \in S : \A y \in S : x <= y

\* distances from the home index of valor at which the cell is VAZIO or
\* REMOVIDO, and at which it is OCUPADO holding valor
DistanciasLivres(t, valor, tipo) ==
    {d \in 0..(t.tamanho - 1) :
         CelulaNoCaminho(t, valor, tipo, d).estado \in {"VAZIO", "REMOVIDO"}}

DistanciasDaChave(t, valor, tipo) ==
    {d \in 0..(t.tamanho - 1) :
         /\ CelulaNoCaminho(t, valor, tipo, d).estado = "OCUPADO"
         /\ CelulaNoCaminho(t, valor, tipo, d).valor = valor}

\* C12: TabelaAberta: an inserir(k, h) that succeeds and does not meet k as a
\* duplicate writes k into the first cell, in circular order from h(k), that
\* is VAZIO or REMOVIDO and changes no other cell; if an OCUPADO cell holding
\* k is met before any such cell, the call changes nothing.
C12_InserirNaPrimeiraLivre ==
    [][(aberta.tamanho > 0 /\ ult'.op = "inserir" /\ ult'.ok) =>
           LET k      == ult'.valor
               h      == ult'.tipo
               livres == DistanciasLivres(aberta, k, h)
               dups   == DistanciasDaChave(aberta, k, h)
           IN  IF dups # {} /\ (livres = {} \/ Minimo(dups) < Minimo(livres))
               THEN aberta' = aberta
               ELSE /\ livres # {}
                    /\ aberta'.tabela =
                           [aberta.tabela EXCEPT
                               ![(indiceInicialAberta(aberta, k, h)
                                     + Minimo(livres)) % aberta.tamanho] =
                                   [valor |-> k, estado |-> "OCUPADO"]]]_vars

\* C12 witness: an inserir has succeeded, its key sits right after a run of
\* cells occupied by other keys that starts at its home index, and the table
\* holds a tombstone.
C12_Witness ==
    /\ aberta.tamanho > 0 /\ ult.op = "inserir" /\ ult.ok
    /\ aberta.numRemovidos >= 1
    /\ \E d \in 1..(aberta.tamanho - 1) :
          /\ d \in DistanciasDaChave(aberta, ult.valor, ult.tipo)
          /\ \A e \in 0..(d - 1) :
                /\ CelulaNoCaminho(aberta, ult.valor, ult.tipo, e).estado
                       = "OCUPADO"
                /\ CelulaNoCaminho(aberta, ult.valor, ult.tipo, e).valor
                       # ult.valor

TransicoesDeCelula ==
    {<<"VAZIO", "OCUPADO">>, <<"OCUPADO", "REMOVIDO">>,
     <<"REMOVIDO", "OCUPADO">>}

\* C13: TabelaAberta: inserir and remover change a cell only along
\* VAZIO -> OCUPADO, OCUPADO -> REMOVIDO and REMOVIDO -> OCUPADO, and no call
\* other than limpar makes a cell VAZIO that was not VAZIO.
C13_TransicoesDeCelula ==
    [][aberta.tamanho > 0 =>
           /\ ult'.op \in {"inserir", "remover"} =>
                  \A i \in DOMAIN aberta.tabela :
                      \/ aberta'.tabela[i] = aberta.tabela[i]
                      \/ <<aberta.tabela[i].estado, aberta'.tabela[i].estado>>
                             \in TransicoesDeCelula
           /\ ult'.op # "limpar" =>
                  \A i \in DOMAIN aberta.tabela :
                      aberta.tabela[i].estado # "VAZIO" =>
                          aberta'.tabela[i].estado # "VAZIO"]_vars

\* C13 witness: with one hash kind in use, the key of the last inserir is
\* held by two OCUPADO cells, which only the reuse of a tombstone produces:
\* the table has cells that went VAZIO -> OCUPADO -> REMOVIDO -> OCUPADO.
C13_Witness ==
    /\ aberta.tamanho > 0 /\ ult.op = "inserir" /\ ult.ok
    /\ Cardinality(tipos) = 1
    /\ Cardinality({i \in Ocupadas(aberta) :
                        aberta.tabela[i].valor = ult.valor}) >= 2

\* C14: TabelaAberta: a remover(k, h) that returns a value returns k, turns
\* exactly one OCUPADO cell holding k into REMOVIDO with value 0, takes one
\* off numElementos, adds one to numRemovidos and changes no other cell.
C14_RemoverMarcaUmaCelula ==
    [][(aberta.tamanho > 0 /\ ult'.op = "remover" /\ ult'.ok) =>
           /\ ult'.ret = ult'.valor
           /\ aberta'.numElementos = aberta.numElementos - 1
           /\ aberta'.numRemovidos = aberta.numRemovidos + 1
           /\ aberta'.tamanho = aberta.tamanho
           /\ \E i \in DOMAIN aberta.tabela :
                 /\ aberta.tabela[i] =
                        [valor |-> ult'.valor, estado |-> "OCUPADO"]
                 /\ aberta'.tabela =
                        [aberta.tabela EXCEPT
                            ![i] = [valor |-> 0, estado |-> "REMOVIDO"]]]_vars

\* C14 witness: a remover of a nonzero key has returned a value and left a
\* second tombstone beside a live key.
C14_Witness ==
    /\ aberta.tamanho > 0 /\ ult.op = "remover" /\ ult.ok
    /\ ult.valor # 0
    /\ aberta.numRemovidos >= 2 /\ aberta.numElementos >= 1

\* C15: TabelaAberta: an inserir that places its key into a REMOVIDO cell
\* takes one off numRemovidos and adds one to numElementos; one that places
\* it into a VAZIO cell leaves numRemovidos and adds one to numElementos.
C15_ContadoresNaInsercao ==
    [][(aberta.tamanho > 0 /\ ult'.op = "inserir"
            /\ aberta'.tabela # aberta.tabela) =>
           \A i \in DOMAIN aberta.tabela :
               aberta'.tabela[i] # aberta.tabela[i] =>
                   /\ aberta'.numElementos = aberta.numElementos + 1
                   /\ IF aberta.tabela[i].estado = "REMOVIDO"
                      THEN aberta'.numRemovidos = aberta.numRemovidos - 1
                      ELSE /\ aberta.tabela[i].estado = "VAZIO"
                           /\ aberta'.numRemovidos = aberta.numRemovidos]_vars

\* C15 witness: with one hash kind in use, an inserir has brought the table
\* to three live keys of which two are equal: a tombstone was reused (the
\* only way to the equal pair) and a VAZIO cell was filled.
C15_Witness ==
    /\ aberta.tamanho > 0 /\ ult.op = "inserir" /\ ult.ok
    /\ Cardinality(tipos) = 1
    /\ aberta.numElementos = 3 /\ aberta.numRemovidos = 0
    /\ \E i, j \in Ocupadas(aberta) :
          i # j /\ aberta.tabela[i].valor = aberta.tabela[j].valor

\* capacity 7, division hash, after inserir(10), inserir(17), inserir(24)
Exemplo10_17_24 ==
    inserirEncadeada(
        inserirEncadeada(
            inserirEncadeada(NovaEncadeada(7), 10, "DIVISAO"),
            17, "DIVISAO"),
        24, "DIVISAO")

\* C16: TabelaEncadeada: inserir of a key that buscar does not find puts it
\* at the head of its bucket, in front of the keys inserted before it
\* (capacity 7, division hash: 10, 17, 24 give bucket 3 = 24, 17, 10);
\* inserir of a key that buscar finds changes nothing.
C16_InserirNaCabeca ==
    /\ [][(encadeada.tamanho > 0 /\ ult'.op = "inserir") =>
              LET k == ult'.valor
                  h == ult'.tipo
                  b == indiceEncadeada(encadeada, k, h)
              IN  IF buscarEncadeada(encadeada, k, h)
                  THEN encadeada' = encadeada
                  ELSE /\ encadeada'.tabela =
                              [encadeada.tabela EXCEPT
                                  ![b] = <<k>> \o encadeada.tabela[b]]
                       /\ encadeada'.numElementos
                              = encadeada.numElementos + 1]_vars
    /\ [](Exemplo10_17_24.tabela[3] = <<24, 17, 10>>)

\* C16 witness: the last inserir put its key at the head of a chain that
\* already held two other keys.
C16_Witness ==
    /\ encadeada.tamanho > 0 /\ ult.op = "inserir"
    /\ LET lista == encadeada.tabela[indiceEncadeada(encadeada, ult.valor,
                                                     ult.tipo)]
       IN  Len(lista) >= 3 /\ lista[1] = ult.valor

\* C17: TabelaEncadeada: remover(k, h) returns true exactly when k is in the
\* chain of bucket h(k); it then unlinks one node holding k, keeps the order
\* of the other nodes of the chain, leaves the other buckets alone and takes
\* one off numElementos (head, middle and last node, capacity 1 included);
\* when it returns false the table is unchanged.
C17_RemoverDesligaUmNo ==
    [][(encadeada.tamanho > 0 /\ ult'.op = "remover") =>
           LET k     == ult'.valor
               b     == indiceEncadeada(encadeada, k, ult'.tipo)
               lista == encadeada.tabela[b]
           IN  /\ ult'.ok = (\E i \in 1..Len(lista) : lista[i] = k)
               /\ ult'.ok =>
                      /\ encadeada'.numElementos = encadeada.numElementos - 1
                      /\ \E p \in 1..Len(lista) :
                            /\ lista[p] = k
                            /\ encadeada'.tabela =
                                   [encadeada.tabela EXCEPT
                                       ![b] = SubSeq(lista, 1, p - 1)
                                              \o SubSeq(lista, p + 1,
                                                        Len(lista))]
               /\ ~ult'.ok => encadeada' = encadeada]_vars

\* C17 witness: on a table of one bucket that held the three keys -1, 0, 1
\* in one chain, a remover has unlinked the node of 0 and the other two
\* nodes remain.
C17_Witness ==
    /\ encadeada.tamanho = 1 /\ ult.op = "remover" /\ ult.ok
    /\ Len(encadeada.tabela[0]) = 2
    /\ Cardinality(inseridos) = 3
    /\ ult.valor = 0
    /\ encadeada.tabela[0] \in {<<1, 0 - 1>>, <<0 - 1, 1>>}


\* the sum, over the first n buckets, of max(0, chain length - 1)
RECURSIVE SomaExcedentes(_, _)
SomaExcedentes(t, n) ==
    IF n = 0 THEN 0
    ELSE SomaExcedentes(t, n - 1)
         + (IF Len(t.tabela[n - 1]) > 1 THEN Len(t.tabela[n - 1]) - 1 ELSE 0)

\* C18: in the chained table, obterEstatisticas().totalColisoes is the sum
\* over all buckets of max(0, chain length - 1), and is 0 when every bucket
\* holds at most one key; posicoesMenosUtilizada is the number of empty
\* buckets and posicoesMaisUtilizada is the longest chain length. The value
\* the caller received from obterEstatisticas is that sum.
C18_EstatisticasDaDistribuicao ==
    encadeada.tamanho > 0 =>
        LET e == obterEstatisticas(encadeada)
            indices == 0..(encadeada.tamanho - 1)
        IN  /\ e.totalColisoes = SomaExcedentes(encadeada, encadeada.tamanho)
            /\ (\A i \in indices : Len(encadeada.tabela[i]) <= 1)
                   => e.totalColisoes = 0
            /\ e.posicoesMenosUtilizada =
                   Cardinality({i \in indices : encadeada.tabela[i] = <<>>})
            /\ \A i \in indices :
                   Len(encadeada.tabela[i]) <= e.posicoesMaisUtilizada
            /\ \/ e.posicoesMaisUtilizada = 0
               \/ \E i \in indices :
                      Len(encadeada.tabela[i]) = e.posicoesMaisUtilizada
            /\ ult.op = "obterEstatisticas"
                   => ult.ret = SomaExcedentes(encadeada, encadeada.tamanho)

\* C18 witness: obterEstatisticas has just been called on a table with an
\* empty bucket, a bucket of one key and a chain of two keys, and it
\* reported one collision
C18_Witness ==
    /\ ult.op = "obterEstatisticas"
    /\ ult.ret = 1
    /\ encadeada.tamanho > 0
    /\ \E i, j, k \in 0..(encadeada.tamanho - 1) :
           /\ encadeada.tabela[i] = <<>>
           /\ Len(encadeada.tabela[j]) = 1
           /\ Len(encadeada.tabela[k]) = 2


\* cell i of the open table is OCUPADO or REMOVIDO
NaoVazia(t, i) == t.tabela[i].estado # "VAZIO"

TemVazia(t) == \E i \in 0..(t.tamanho - 1) : ~NaoVazia(t, i)

\* the cells that begin a maximal run of non-VAZIO cells, the table read
\* as a ring
IniciosCirculares(t) ==
    {i \in 0..(t.tamanho - 1) :
         NaoVazia(t, i) /\ ~NaoVazia(t, (i + t.tamanho - 1) % t.tamanho)}

\* the length of the run of non-VAZIO cells that begins at cell i, the
\* table read as a ring with at least one VAZIO cell
ComprimentoCircular(t, i) ==
    Minimo({k \in 1..t.tamanho : ~NaoVazia(t, (i + k) % t.tamanho)})

ClustersCirculares(t) ==
    {i \in IniciosCirculares(t) : ComprimentoCircular(t, i) > 1}

\* a maximal run of non-VAZIO cells touches both the last index and index 0
RunDeBorda(t) ==
    /\ t.tamanho > 0
    /\ TemVazia(t)
    /\ NaoVazia(t, 0)
    /\ NaoVazia(t, t.tamanho - 1)

\* C19: when the open table holds a live key and a maximal run of non-VAZIO
\* cells touches both the last index and index 0, analisarSondagem counts
\* that run as exactly one cluster whose length is its tail part plus its
\* head part: clustersDetectados is the number of maximal runs longer than
\* one cell, the table read as a ring, and maiorCluster is the longest of
\* them.
C19_RunDeBordaContadoUmaVez ==
    (RunDeBorda(aberta) /\ aberta.numElementos > 0) =>
        LET e == analisarSondagem(aberta) IN
        /\ e.clustersDetectados = Cardinality(ClustersCirculares(aberta))
        /\ \A i \in ClustersCirculares(aberta) :
               ComprimentoCircular(aberta, i) <= e.maiorCluster
        /\ \/ e.maiorCluster = 0
           \/ \E i \in ClustersCirculares(aberta) :
                  ComprimentoCircular(aberta, i) = e.maiorCluster


\* C20: in every reachable state of the open table in which no run of
\* non-VAZIO cells joins the last index to index 0, analisarSondagem counts
\* every maximal contiguous run of non-VAZIO cells longer than one cell as a
\* cluster, REMOVIDO cells counting as OCUPADO cells do, also when the table
\* holds tombstones and no live key: clustersDetectados is the number of
\* such runs and maiorCluster is the longest of them.
C20_TodoRunContado ==
    (aberta.tamanho > 0
     /\ ~(NaoVazia(aberta, 0) /\ NaoVazia(aberta, aberta.tamanho - 1))) =>
        LET e == analisarSondagem(aberta) IN
        /\ e.clustersDetectados = Cardinality(ClustersCirculares(aberta))
        /\ \A i \in ClustersCirculares(aberta) :
               ComprimentoCircular(aberta, i) <= e.maiorCluster
        /\ \/ e.maiorCluster = 0
           \/ \E i \in ClustersCirculares(aberta) :
                  ComprimentoCircular(aberta, i) = e.maiorCluster


\* C21: on an open table of capacity TamCluster, every inserir of a key of
\* home index 0 under the division hash succeeds, and once the five distinct
\* keys have been inserted cells 0..4 are OCUPADO and hold them, every other
\* cell is VAZIO, and analisarSondagem reports clustersDetectados = 1 and
\* maiorCluster = 5.
C21_CincoChavesUmCluster ==
    /\ [](aberta.tamanho > 0 /\ inseridos = ChavesCluster =>
             LET e == analisarSondagem(aberta) IN
             /\ aberta.numElementos = 5
             /\ \A i \in 0..(aberta.tamanho - 1) :
                    aberta.tabela[i].estado =
                        IF i <= 4 THEN "OCUPADO" ELSE "VAZIO"
             /\ {aberta.tabela[i].valor : i \in 0..4} = ChavesCluster
             /\ e.clustersDetectados = 1
             /\ e.maiorCluster = 5
             /\ ult.op = "analisarSondagem" => ult.ret = 1)
    /\ [][\A valor \in ChavesCluster :
              InserirAberta(valor, "DIVISAO") =>
                  /\ ult'.ok
                  /\ aberta'.numElementos =
                         Cardinality(inseridos \cup {valor})]_vars

\* C21 witness: the five keys have been inserted into the table of capacity
\* TamCluster and analisarSondagem has reported one cluster
C21_Witness ==
    /\ aberta.tamanho = TamCluster
    /\ inseridos = ChavesCluster
    /\ aberta.numElementos = 5
    /\ ult.op = "analisarSondagem"
    /\ ult.ret = 1


\* the probes charged to the OCUPADO cell i: one for the division home index
\* of its value and one for every step from there to i, around the ring
CustoDaCelula(t, i) ==
    1 + ((i + t.tamanho - (Abs(t.tabela[i].valor) % t.tamanho)) % t.tamanho)

\* the sum of CustoDaCelula over the OCUPADO cells among the first n cells
RECURSIVE SomaCustos(_, _)
SomaCustos(t, n) ==
    IF n = 0 THEN 0
    ELSE SomaCustos(t, n - 1)
         + (IF t.tabela[n - 1].estado = "OCUPADO"
            THEN CustoDaCelula(t, n - 1) ELSE 0)

\* C22: in the open table, whichever hash kind inserted the values,
\* analisarSondagem charges every OCUPADO cell at index i holding v with
\* 1 + ((i - (|v| mod capacity)) mod capacity) probes: totalSondagens is the
\* sum of these over the OCUPADO cells, maxSondagens is their maximum (0
\* without such a cell) and the mean is taken over the OCUPADO cells.
C22_SondagensDesdeODivisao ==
    aberta.tamanho > 0 =>
        LET e == analisarSondagem(aberta) IN
        /\ e.totalSondagens = SomaCustos(aberta, aberta.tamanho)
        /\ e.operacoesRealizadas = Cardinality(Ocupadas(aberta))
        /\ \A i \in Ocupadas(aberta) : CustoDaCelula(aberta, i) <= e.maxSondagens
        /\ \/ e.maxSondagens = 0 /\ Ocupadas(aberta) = {}
           \/ \E i \in Ocupadas(aberta) :
                  CustoDaCelula(aberta, i) = e.maxSondagens

\* C22 witness: analisarSondagem has been called on a table filled with the
\* multiplication hash only, in which one value lies two cells after its
\* division home index and another lies before its division home index
C22_Witness ==
    /\ ult.op = "analisarSondagem"
    /\ tipos = {"MULTIPLICACAO"}
    /\ \E i, j \in Ocupadas(aberta) :
           /\ i = (Abs(aberta.tabela[i].valor) % aberta.tamanho) + 2
           /\ j < Abs(aberta.tabela[j].valor) % aberta.tamanho


\* C23: for both tables, limpar from any reachable state yields the state of
\* a freshly constructed table of the same capacity: every cell VAZIO / every
\* bucket empty and all counters 0.  The tables have no other state, so the
\* operations that follow act as on a new table.
C23_LimparComoNova ==
    [][/\ LimparAberta =>
              /\ aberta' = NovaAberta(aberta.tamanho)
              /\ \A i \in 0..(aberta.tamanho - 1) :
                     aberta'.tabela[i].estado = "VAZIO"
              /\ aberta'.numElementos = 0
              /\ aberta'.numRemovidos = 0
       /\ LimparEncadeada =>
              /\ encadeada' = NovaEncadeada(encadeada.tamanho)
              /\ \A i \in 0..(encadeada.tamanho - 1) :
                     encadeada'.tabela[i] = <<>>
              /\ encadeada'.numElementos = 0]_vars

\* C23 witness: limpar has just been called on an open table on which both
\* hash kinds had been used by inserir or remover, and the table is as new
C23_Witness ==
    /\ ult.op = "limpar"
    /\ tipos = TipoHash
    /\ aberta.tamanho > 1
    /\ aberta = NovaAberta(aberta.tamanho)


\* C24: for both tables, a remover that does not find the key ends normally
\* with the negative result and leaves every cell / chain and every counter
\* as it was.
C24_RemoverSemAcharNaoAltera ==
    [][ult'.op = "remover" =>
           /\ ult'.erro = ""
           /\ ~ult'.ok => (aberta' = aberta /\ encadeada' = encadeada)
           /\ (aberta.tamanho > 0
               /\ ~buscarAberta(aberta, ult'.valor, ult'.tipo)) =>
                  (~ult'.ok /\ aberta' = aberta)
           /\ (encadeada.tamanho > 0
               /\ ~buscarEncadeada(encadeada, ult'.valor, ult'.tipo)) =>
                  (~ult'.ok /\ encadeada' = encadeada)]_vars

\* C24 witness: a remover on an open table that holds a live key and a
\* tombstone has just returned without finding its key
C24_Witness ==
    /\ ult.op = "remover"
    /\ ~ult.ok
    /\ aberta.numElementos > 0
    /\ aberta.numRemovidos > 0
    /\ ~buscarAberta(aberta, ult.valor, ult.tipo)


\* C25: constructing either table with capacity 0 fails with
\* std::invalid_argument and leaves the caller without a table; constructing
\* it with a capacity above 0 succeeds and gives a table of that capacity
\* with every cell VAZIO / every bucket empty and all counters 0.
C25_Construcao ==
    [][\A tam \in 0..MaxTam :
           /\ ConstruirAberta(tam) =>
                  IF tam = 0
                  THEN /\ ~ult'.ok
                       /\ ult'.erro = "invalid_argument"
                       /\ SemTabela'
                  ELSE /\ ult'.ok
                       /\ ult'.erro = ""
                       /\ aberta'.tamanho = tam
                       /\ DOMAIN aberta'.tabela = 0..(tam - 1)
                       /\ \A i \in 0..(tam - 1) :
                              aberta'.tabela[i].estado = "VAZIO"
                       /\ aberta'.numElementos = 0
                       /\ aberta'.numRemovidos = 0
           /\ ConstruirEncadeada(tam) =>
                  IF tam = 0
                  THEN /\ ~ult'.ok
                       /\ ult'.erro = "invalid_argument"
                       /\ SemTabela'
                  ELSE /\ ult'.ok
                       /\ ult'.erro = ""
                       /\ encadeada'.tamanho = tam
                       /\ DOMAIN encadeada'.tabela = 0..(tam - 1)
                       /\ \A i \in 0..(tam - 1) :
                              encadeada'.tabela[i] = <<>>
                       /\ encadeada'.numElementos = 0]_vars

\* C25 witness: the constructor of the open table has been called with
\* capacity 0, it has thrown std::invalid_argument and there is no table
C25_Witness ==
    /\ ult.op = "construirAberta"
    /\ ult.valor = 0
    /\ ult.erro = "invalid_argument"
    /\ SemTabela


\* the keys held by the nodes of the chained table
ChavesNosNos(t) ==
    UNION {{t.tabela[i][p] : p \in 1..Len(t.tabela[i])} :
               i \in 0..(t.tamanho - 1)}

\* C26: in the chained table inserir never fails, whatever the load factor;
\* inserting a key that is not yet in the table (and, more generally, one
\* that buscar does not find under the hash kind of the call) increases
\* numElementos by one, so that numElementos may exceed the capacity, and
\* the capacity never changes.
C26_InserirSemLimite ==
    [][(encadeada.tamanho > 0 /\ ult'.op = "inserir") =>
           /\ ult'.ok
           /\ ult'.erro = ""
           /\ encadeada'.tamanho = encadeada.tamanho
           /\ DOMAIN encadeada'.tabela = DOMAIN encadeada.tabela
           /\ ult'.valor \notin ChavesNosNos(encadeada) =>
                  encadeada'.numElementos = encadeada.numElementos + 1
           /\ ~buscarEncadeada(encadeada, ult'.valor, ult'.tipo) =>
                  encadeada'.numElementos = encadeada.numElementos + 1
           /\ buscarEncadeada(encadeada', ult'.valor, ult'.tipo)]_vars

\* C26 witness: an inserir on a chained table of two buckets has just
\* raised numElementos to three distinct keys, above the capacity
C26_Witness ==
    /\ ult.op = "inserir"
    /\ encadeada.tamanho = 2
    /\ encadeada.numElementos = 3
    /\ Cardinality(ChavesNosNos(encadeada)) = 3


\* |chave| mod tamanho for every value of int, |INT_MIN| being 2^31
AbsMod(chave, tamanho) ==
    IF chave = INT_MIN
    THEN PotenciaDe2Mod(31, tamanho)
    ELSE Abs(chave) % tamanho

\* C27: for every int key, negative keys and INT_MIN included, and every
\* capacity above 0, calcularHashDivisao of either table returns
\* |key| mod capacity, a value in 0..capacity - 1.
C27_HashDivisao ==
    ult.op = "calcularHashDivisao" =>
        /\ ult.ret = AbsMod(ult.valor, aberta.tamanho + encadeada.tamanho)
        /\ ult.ret \in 0..(aberta.tamanho + encadeada.tamanho - 1)


\* C28: gerarNumerosAleatorios(quantidade) returns, for every quantidade
\* above 0, a vector of exactly quantidade numbers of which no two are
\* equal.
C28_NumerosUnicos ==
    (numeros.fase = "pronto" /\ numeros.quantidade > 0) =>
        /\ numeros.tamanho = numeros.quantidade
        /\ ~numeros.repetidos


\* C29: in the open table inserir goes on to probe if and only if
\* numElementos / capacity <= 0.7 and
\* (numElementos + numRemovidos) / capacity <= 0.5, an occupancy of exactly
\* 0.5 being accepted; otherwise it fails with the rehash error, and
\* precisaRehash() is true exactly in the states in which it does.
C29_Limites ==
    [][(aberta.tamanho > 0 /\ ult'.op = "inserir") =>
           LET dentro ==
                   /\ 10 * aberta.numElementos <= 7 * aberta.tamanho
                   /\ 2 * (aberta.numElementos + aberta.numRemovidos)
                          <= aberta.tamanho
           IN  /\ dentro <=> ult'.erro # "rehash"
               /\ precisaRehash(aberta) <=> ult'.erro = "rehash"
               /\ (2 * (aberta.numElementos + aberta.numRemovidos)
                       = aberta.tamanho
                   /\ 10 * aberta.numElementos <= 7 * aberta.tamanho)
                      => ult'.ok]_vars

\* C29 witness: an inserir has succeeded on a table of at least four cells
\* whose occupancy was exactly 0.5 at the call: it filled a VAZIO cell, so
\* that twice the number of non-VAZIO cells is now the capacity plus two
\* (from any larger occupancy the call would have been refused, and the reuse
\* of a tombstone leaves the occupancy as it was)
C29_Witness ==
    /\ ult.op = "inserir"
    /\ ult.ok
    /\ aberta.tamanho >= 4
    /\ 2 * (aberta.numElementos + aberta.numRemovidos) = aberta.tamanho + 2


\* the values held by the OCUPADO cells of the open table
ValoresOcupados(t) == {t.tabela[i].valor : i \in Ocupadas(t)}

\* C30: in the open table the load check comes before the search for the
\* key: an inserir of a key that the table already holds fails with the
\* rehash error, and changes nothing, whenever a limit is exceeded at the
\* call, instead of returning silently.
C30_LimiteAntesDaDuplicata ==
    [][(aberta.tamanho > 0
        /\ ult'.op = "inserir"
        /\ ult'.valor \in ValoresOcupados(aberta)
        /\ precisaRehash(aberta)) =>
           /\ ~ult'.ok
           /\ ult'.erro = "rehash"
           /\ aberta' = aberta]_vars

\* C30 witness: an inserir of a key that the table holds, and that buscar
\* finds under the hash kind of the call, has just failed with the rehash
\* error
C30_Witness ==
    /\ ult.op = "inserir"
    /\ ult.erro = "rehash"
    /\ aberta.tamanho > 0
    /\ ult.valor \in ValoresOcupados(aberta)
    /\ buscarAberta(aberta, ult.valor, ult.tipo)


\* the OCUPADO cells of the open table that hold valor
CelulasCom(t, valor) == {i \in Ocupadas(t) : t.tabela[i].valor = valor}

\* C31: in the open table 0 and the negative keys are keys like any other.
\* A REMOVIDO cell, whose value is 0, matches no key: buscar(v, h) finds v
\* only if an OCUPADO cell holds v, for v = 0 as for every other key, and a
\* remover that succeeds returns the key it was asked for, which an OCUPADO
\* cell held.  The keys k and -k have the same home index and are stored,
\* found and removed each on its own: an inserir or remover of k leaves the
\* OCUPADO cells that hold -k as they are and, while one hash kind is in
\* use, leaves the result of buscar(-k) as it is.
C31_ZeroENegativos ==
    /\ [](aberta.tamanho > 0 =>
             \A valor \in Chaves, tipo \in TipoHash :
                 /\ buscarAberta(aberta, valor, tipo) =>
                        CelulasCom(aberta, valor) # {}
                 /\ indiceInicialAberta(aberta, valor, tipo) =
                        indiceInicialAberta(aberta, 0 - valor, tipo))
    /\ [][(aberta.tamanho > 0 /\ ult'.op \in {"inserir", "remover"}) =>
              LET k == ult'.valor IN
              /\ (ult'.op = "remover" /\ ult'.ok) =>
                     /\ ult'.ret = k
                     /\ CelulasCom(aberta, k) # {}
              /\ k # 0 =>
                     /\ CelulasCom(aberta', 0 - k) = CelulasCom(aberta, 0 - k)
                     /\ Cardinality(tipos') <= 1 =>
                            buscarAberta(aberta', 0 - k, ult'.tipo)
                                = buscarAberta(aberta, 0 - k, ult'.tipo)]_vars

\* C31 witness: buscar(0) has just answered "not found" on a table whose
\* cell 0, the home index of 0, is REMOVIDO with value 0, and which holds
\* the key -1 but not the key 1
C31_Witness ==
    /\ ult.op = "buscar"
    /\ ult.valor = 0
    /\ ~ult.ok
    /\ aberta.tamanho > 1
    /\ aberta.tabela[0] = [valor |-> 0, estado |-> "REMOVIDO"]
    /\ CelulasCom(aberta, 0 - 1) # {}
    /\ CelulasCom(aberta, 1) = {}

\* C32: testarTabelaAberta inserts every value of every dataset: no inserir
\* throws, so that neither insertion loop is left by break and the recorded
\* number of elements is the number of distinct values of the dataset.
C32_TodosInseridos ==
    bench.fase \in {"registradoDivisao", "registradoMultiplicacao"} =>
        /\ ~bench.interrompido
        /\ bench.posicao = bench.quantidade
        /\ bench.tabela.numElementos + bench.repetidos = bench.quantidade

\* C33: for every capacity and every sequence of inserir and buscar calls
\* with the division hash, TabelaHashAberta and TabelaAberta accept or
\* reject each insert identically, have the same cell layout and number of
\* elements, and give the same search results.
C33_VariantesIguais ==
    (variante.tamanho > 0 /\ tipos \subseteq {"DIVISAO"}) =>
        /\ variante.tabela = aberta.tabela
        /\ variante.numElementos = aberta.numElementos
        /\ ult.op \in {"inserirNasVariantes", "buscarNasVariantes"} =>
               ultVariante.ok = ult.ok
        /\ \A valor \in Chaves :
               buscarHashAberta(variante, valor, "DIVISAO")
                   = buscarAberta(aberta, valor, "DIVISAO")

\* C34: the occupancy numElementos + numRemovidos never decreases under
\* inserir or remover; once precisaRehash() holds it still holds after any
\* inserir or remover, and every inserir fails and leaves the table as it
\* was.  Only limpar ends this.
C34_OcupacaoNaoDiminui ==
    [][(aberta.tamanho > 0 /\ ult'.op \in {"inserir", "remover"}) =>
           /\ aberta'.numElementos + aberta'.numRemovidos
                  >= aberta.numElementos + aberta.numRemovidos
           /\ precisaRehash(aberta) =>
                  /\ precisaRehash(aberta')
                  /\ ult'.op = "inserir" =>
                         /\ ~ult'.ok
                         /\ ult'.erro = "rehash"
                         /\ aberta' = aberta]_vars

\* an inserir has failed on a table whose keys were all removed
C34_Witness ==
    /\ ult.op = "inserir"
    /\ ult.erro = "rehash"
    /\ aberta.numElementos = 0
    /\ aberta.numRemovidos >= 2

\* the number of steps from the home index of the value of cell i to cell
\* i, in circular order
DistanciaDaOrigem(t, i, tipo) ==
    (i + t.tamanho - indiceInicialAberta(t, t.tabela[i].valor, tipo))
        % t.tamanho

\* C35: TabelaAberta with one hash kind h used for all calls: every live
\* key stays findable.  For every OCUPADO cell i holding v, no cell on the
\* circular path from the home index of v to i is VAZIO, and buscar(v, h)
\* returns found.
C35_VivasEncontraveis ==
    (aberta.tamanho > 0 /\ UmTipo) =>
        \A tipo \in tipos : \A i \in Ocupadas(aberta) :
            LET v == aberta.tabela[i].valor IN
            /\ \A e \in 0..DistanciaDaOrigem(aberta, i, tipo) :
                   CelulaNoCaminho(aberta, v, tipo, e).estado # "VAZIO"
            /\ buscarAberta(aberta, v, tipo)

\* a buscar has found a key that is stored behind a tombstone of its path
C35_Witness ==
    /\ UmTipo
    /\ ult.op = "buscar"
    /\ ult.ok
    /\ ult.tipo \in tipos
    /\ \E i \in CelulasCom(aberta, ult.valor) :
           \E e \in 0..(DistanciaDaOrigem(aberta, i, ult.tipo) - 1) :
               CelulaNoCaminho(aberta, ult.valor, ult.tipo, e).estado
                   = "REMOVIDO"

\* the number of cells of the open table that are OCUPADO or REMOVIDO
NaoVazias(t) == Cardinality({i \in DOMAIN t.tabela : NaoVazia(t, i)})

\* C36: TabelaAberta: in every reachable state
\* 2 * (numElementos + numRemovidos) <= capacity + 2, i.e. at most
\* floor(capacity / 2) + 1 cells are not VAZIO; for capacity >= 5 the load
\* factor numElementos / capacity never exceeds 0.7, and for every capacity
\* an inserir is never rejected by the 0.7 check alone: whenever the load
\* factor is above 0.7 the occupancy is above 0.5.
C36_OcupacaoLimitada ==
    aberta.tamanho > 0 =>
        /\ 2 * (aberta.numElementos + aberta.numRemovidos)
               <= aberta.tamanho + 2
        /\ NaoVazias(aberta) = aberta.numElementos + aberta.numRemovidos
        /\ NaoVazias(aberta) <= (aberta.tamanho \div 2) + 1
        /\ aberta.tamanho >= 5 => ~fatorCargaAcimaDoMaximo(aberta)
        /\ fatorCargaAcimaDoMaximo(aberta) =>
               fatorOcupacaoAcimaDoLimite(aberta)

\* a table of capacity 5 or more at its largest occupancy, on which an
\* inserir has been refused
C36_Witness ==
    /\ aberta.tamanho >= 5
    /\ 2 * (aberta.numElementos + aberta.numRemovidos) > aberta.tamanho
    /\ aberta.numRemovidos >= 1
    /\ ult.op = "inserir"
    /\ ult.erro = "rehash"

\* C37: TabelaAberta: inserir never fails with "Tabela cheia".  Whenever
\* the threshold check passes the table has a VAZIO cell, so that
\* sondagemLinear in insertion mode returns a valid index for every key and
\* hash kind.
C37_TabelaCheiaInalcancavel ==
    /\ ult.erro # "cheia"
    /\ (aberta.tamanho > 0 /\ ~precisaRehash(aberta)) =>
           /\ TemVazia(aberta)
           /\ \A valor \in Chaves, tipo \in TipoHash :
                  sondagemLinear(aberta,
                                 indiceInicialAberta(aberta, valor, tipo),
                                 valor, TRUE) < aberta.tamanho

\* an inserir has passed the threshold check and has filled the last VAZIO
\* cell of a table of two or more cells
C37_Witness ==
    /\ aberta.tamanho >= 2
    /\ ult.op = "inserir"
    /\ ult.ok
    /\ ~TemVazia(aberta)
    /\ aberta.numRemovidos >= 1

\* C38: TabelaAberta: in every reachable state analisarSondagem() gives
\* maiorCluster <= number of non-VAZIO cells <= capacity and
\* clustersDetectados <= capacity / 2.
C38_EstatisticasLimitadas ==
    aberta.tamanho > 0 =>
        /\ analisarSondagem(aberta).maiorCluster <= NaoVazias(aberta)
        /\ NaoVazias(aberta) <= aberta.tamanho
        /\ 2 * analisarSondagem(aberta).clustersDetectados <= aberta.tamanho

\* C39: TabelaEncadeada: in every reachable state obterEstatisticas() gives
\* totalColisoes = numElementos - (capacity - posicoesMenosUtilizada), the
\* elements beyond the first of each non-empty bucket, and
\* posicoesMaisUtilizada = 0 exactly when the table is empty.
C39_ColisoesPelosContadores ==
    encadeada.tamanho > 0 =>
        LET stats == obterEstatisticas(encadeada) IN
        /\ stats.totalColisoes
               = encadeada.numElementos
                     - (encadeada.tamanho - stats.posicoesMenosUtilizada)
        /\ stats.posicoesMaisUtilizada = 0 <=> encadeada.numElementos = 0
        /\ ult.op = "obterEstatisticas" =>
               ult.ret = stats.totalColisoes

\* obterEstatisticas has reported one collision or more for a table that
\* has an empty bucket and, after a remover, fewer elements than were
\* inserted
C39_Witness ==
    /\ ult.op = "obterEstatisticas"
    /\ ult.ret >= 1
    /\ obterEstatisticas(encadeada).posicoesMenosUtilizada >= 1
    /\ encadeada.numElementos < Cardinality(inseridos)

\* C40: gerarNumerosAleatorios(quantidade), quantidade > 0, on a
\* CarregadorDados with minimo < maximo eventually returns under fair
\* random draws, also when quantidade is larger than the number of integers
\* of the range.
C40_GeracaoTermina ==
    (numeros.fase \in {"unicos", "comRepeticao"}) ~> (numeros.fase = "pronto")

====
